---- MODULE Spec2Model ----
(***************************************************************************)
(* A model of z_io.h: the ZIOHandle stream abstraction over stdio files    *)
(* and over caller-supplied memory buffers.                                *)
(*                                                                         *)
(* One ZIOHandle, one caller buffer and one path on disk are modelled.     *)
(* Pointers are addresses of PtrBits bits; zio_ll has the same width, as   *)
(* on the LP64 targets the header is built for (both are 64 bits there).   *)
(***************************************************************************)
EXTENDS Integers, Sequences, FiniteSets, TLC

\* ------------------------------------------------------------------------
\* Bounds of the model
\* ------------------------------------------------------------------------
\* width of a pointer and of zio_ll (64 in the build, scaled down)
PtrBits == 4
\* address of the caller's buffer
MemAddr == 2
\* length of the caller's buffer, and the largest capacity given to open
MaxCap == 2
\* largest file length and file position explored
MaxFileLen == 2
\* how often the round-trip case is run on one handle
MaxRounds == 3
\* the longest path handed to a path function
MaxPathLen == 3
\* the longest second argument (right part, new extension)
MaxExtLen == 2
\* the largest result_size handed to a path function
MaxResult == 4
\* the size of zfs_file_copy's buffer, scaled down from 32768
BufferSize == 1
\* the number of entries of a directory besides "." and ".."
MaxNames == 2

AddrSpace == 2 ^ PtrBits
\* the values of a zio_ll
LLMin == 0 - (2 ^ (PtrBits - 1))
LLMax == (2 ^ (PtrBits - 1)) - 1
Offsets == LLMin .. LLMax
\* byte counts handed to read and write on a memory handle
Counts == (0 - 1) .. (MaxCap + 1)
\* byte counts handed to read and write on a file handle
FileCounts == 0 .. MaxFileLen
\* offsets handed to seek on a file handle
FileOffsets == (0 - (MaxFileLen + 1)) .. (MaxFileLen + 1)
Byte == {0, 1}
\* content of a destination cell that no call has written
Untouched == 0 - 1

Min(a, b) == IF a < b THEN a ELSE b
Max(a, b) == IF a > b THEN a ELSE b

\* ------------------------------------------------------------------------
\* Program constants
\* ------------------------------------------------------------------------
ZIOM_WRITE == 1
ZIOM_READ == 2
ZIO_SEEK_SET == 0
ZIO_SEEK_CUR == 1
ZIO_SEEK_END == 2
ZIO_ERROR == 0 - 1
ZIO_OK == 0
\* the null pointer, for data pointers, function pointers and strings
NULL == 0
\* the FILE* that fopen returns on success
FilePtr == 1

VARIABLES
    handle,   \* the ZIOHandle
    memory,   \* the caller's buffer, MaxCap bytes at address MemAddr
    stream,   \* the FILE behind handle.data.file.handle
    disk,     \* the file at the path: does it exist, and its bytes
    last,     \* the call that has just returned: arguments, result, the
              \* state before it, and a summary of the call before it
    rt,       \* the progress and the results of the round-trip test case
    pair,     \* a file handle run side by side with the const-memory handle
    zfs,      \* the path function that has just returned, and its result
    copy,     \* the two files of zfs_file_copy and the call that has returned
    dir       \* the ZFSDir context, the directory behind it and the last call

vars == <<handle, memory, stream, disk, last, rt, pair, zfs, copy, dir>>

\* ------------------------------------------------------------------------
\* struct ZIOHandle and zio__zero_handle
\* ------------------------------------------------------------------------
ZeroData == [file |-> NULL, begin |-> NULL, pos |-> NULL, end |-> NULL]

ZeroHandle ==
    [close |-> "NULL", size |-> "NULL", seek |-> "NULL", read |-> "NULL",
     write |-> "NULL", last_error |-> "NULL", data |-> ZeroData]

zio__zero_handle(h) == ZeroHandle

\* zio__set_error stores the string; every caller returns ZIO_ERROR with it
\* zio__set_error that also resets the handle it reports on
zio__set_error_zeroing(h, error_string) ==
    [zio__zero_handle(h) EXCEPT !.last_error = error_string]

zio__set_error(h, error_string) == [h EXCEPT !.last_error = error_string]

\* flags & test, for the two mode bits
BitAnd(a, b) == ((a % 2) * (b % 2)) + (2 * ((a \div 2) * (b \div 2)))

\* zio__test_flag that accepts any common bit
zio__test_flag_any(flags, test) == BitAnd(flags, test) # 0

zio__test_flag(flags, test) == BitAnd(flags, test) = test

\* ------------------------------------------------------------------------
\* Pointer arithmetic.  begin + offset outside the buffer (and one past it)
\* is undefined in C; the outcomes are the address wrapped to the pointer
\* width (what the flat-address builds compute) and the unwrapped sum (what
\* a compiler that assumes no overflow may compare).
\* ------------------------------------------------------------------------
UBOutcomes == {"wrap", "nowrap"}

PtrAdd(p, off, ub) == IF ub = "wrap" THEN (p + off) % AddrSpace ELSE p + off

\* the bytes of the buffer in [from, to), as addresses
MemSlice(mem, from, to) ==
    [i \in 1 .. (to - from) |-> mem[(from - MemAddr) + i]]

\* the buffer with the bytes of src copied to address at
MemStore(mem, at, src) ==
    [i \in 1 .. Len(mem) |->
        IF i > (at - MemAddr) /\ i <= (at - MemAddr) + Len(src)
        THEN src[i - (at - MemAddr)] ELSE mem[i]]

\* a destination of n cells that received the bytes of src at its start
Deliver(n, src) ==
    [i \in 1 .. Max(n, 0) |-> IF i <= Len(src) THEN src[i] ELSE Untouched]

Take(s, n) == [i \in 1 .. Min(n, Len(s)) |-> s[i]]

\* ------------------------------------------------------------------------
\* Memory I/O
\* ------------------------------------------------------------------------
\* zio__memory_close that leaves the error message in place
zio__memory_close_keeps_error(h) ==
    [handle |-> [zio__zero_handle(h) EXCEPT !.last_error = h.last_error],
     ret |-> ZIO_OK]

zio__memory_close(h) == [handle |-> zio__zero_handle(h), ret |-> ZIO_OK]

\* zio__memory_size that measures from the current position
zio__memory_size_remaining(h) == h.data.end - h.data.pos

zio__memory_size(h) == h.data.end - h.data.begin

\* zio__memory_seek without the clamp to end
zio__memory_seek_noupper(h, offset, whence, ub) ==
    IF whence \notin {ZIO_SEEK_SET, ZIO_SEEK_CUR, ZIO_SEEK_END}
    THEN [handle |-> zio__set_error(h, "Invalid whence value"), ret |-> ZIO_ERROR]
    ELSE
      LET base == CASE whence = ZIO_SEEK_SET -> h.data.begin
                    [] whence = ZIO_SEEK_CUR -> h.data.pos
                    [] whence = ZIO_SEEK_END -> h.data.end
          new_pos0 == PtrAdd(base, offset, ub)
          new_pos == IF new_pos0 < h.data.begin THEN h.data.begin ELSE new_pos0
      IN [handle |-> [h EXCEPT !.data.pos = new_pos],
          ret |-> new_pos - h.data.begin]

zio__memory_seek(h, offset, whence, ub) ==
    IF whence \notin {ZIO_SEEK_SET, ZIO_SEEK_CUR, ZIO_SEEK_END}
    THEN [handle |-> zio__set_error(h, "Invalid whence value"), ret |-> ZIO_ERROR]
    ELSE
      LET base == CASE whence = ZIO_SEEK_SET -> h.data.begin
                    [] whence = ZIO_SEEK_CUR -> h.data.pos
                    [] whence = ZIO_SEEK_END -> h.data.end
          new_pos0 == PtrAdd(base, offset, ub)
          new_pos1 == IF new_pos0 < h.data.begin THEN h.data.begin ELSE new_pos0
          new_pos == IF new_pos1 > h.data.end THEN h.data.end ELSE new_pos1
      IN [handle |-> [h EXCEPT !.data.pos = new_pos],
          ret |-> new_pos - h.data.begin]

memory_read_total(h, size) ==
    LET mem_available == h.data.end - h.data.pos
    IN IF size > mem_available THEN mem_available ELSE size

\* zio__memory_read that forgets to advance the position
zio__memory_read_noadvance(h, mem, size) ==
    IF size <= 0
    THEN [handle |-> zio__set_error(h, "Invalid size"), ret |-> ZIO_ERROR,
          dest |-> Deliver(size, <<>>)]
    ELSE
      LET total_bytes == memory_read_total(h, size)
      IN [handle |-> h, ret |-> total_bytes,
          dest |-> Deliver(size, MemSlice(mem, h.data.pos, h.data.pos + total_bytes))]

\* zio__memory_read that accepts a size of 0
zio__memory_read_zero_ok(h, mem, size) ==
    IF size < 0
    THEN [handle |-> zio__set_error(h, "Invalid size"), ret |-> ZIO_ERROR,
          dest |-> Deliver(size, <<>>)]
    ELSE
      LET total_bytes == memory_read_total(h, size)
      IN [handle |-> [h EXCEPT !.data.pos = h.data.pos + total_bytes],
          ret |-> total_bytes,
          dest |-> Deliver(size, MemSlice(mem, h.data.pos, h.data.pos + total_bytes))]

zio__memory_read(h, mem, size) ==
    IF size <= 0
    THEN [handle |-> zio__set_error(h, "Invalid size"), ret |-> ZIO_ERROR,
          dest |-> Deliver(size, <<>>)]
    ELSE
      LET total_bytes == memory_read_total(h, size)
      IN [handle |-> [h EXCEPT !.data.pos = h.data.pos + total_bytes],
          ret |-> total_bytes,
          dest |-> Deliver(size, MemSlice(mem, h.data.pos, h.data.pos + total_bytes))]

memory_write_total(h, size) ==
    LET mem_available == h.data.end - h.data.pos
    IN IF size > mem_available THEN mem_available ELSE size

\* zio__memory_write that refuses only a negative size
zio__memory_write_negative_only(h, mem, source, size) ==
    IF size < 0
    THEN [handle |-> zio__set_error(h, "Invalid size"), ret |-> ZIO_ERROR,
          memory |-> mem]
    ELSE
      LET total_bytes == memory_write_total(h, size)
      IN [handle |-> [h EXCEPT !.data.pos = h.data.pos + total_bytes],
          ret |-> total_bytes,
          memory |-> MemStore(mem, h.data.pos, Take(source, total_bytes))]

\* zio__memory_write that copies one byte too few
zio__memory_write_short(h, mem, source, size) ==
    IF size <= 0
    THEN [handle |-> zio__set_error(h, "Invalid size"), ret |-> ZIO_ERROR,
          memory |-> mem]
    ELSE
      LET total_bytes == memory_write_total(h, size)
      IN [handle |-> [h EXCEPT !.data.pos = h.data.pos + total_bytes],
          ret |-> total_bytes,
          memory |-> MemStore(mem, h.data.pos, Take(source, total_bytes - 1))]

\* zio__memory_write that reports a short write as an error
zio__memory_write_strict(h, mem, source, size) ==
    IF size <= 0 \/ size > h.data.end - h.data.pos
    THEN [handle |-> zio__set_error(h, "Invalid size"), ret |-> ZIO_ERROR,
          memory |-> mem]
    ELSE
      [handle |-> [h EXCEPT !.data.pos = h.data.pos + size],
       ret |-> size,
       memory |-> MemStore(mem, h.data.pos, Take(source, size))]

zio__memory_write(h, mem, source, size) ==
    IF size <= 0
    THEN [handle |-> zio__set_error(h, "Invalid size"), ret |-> ZIO_ERROR,
          memory |-> mem]
    ELSE
      LET total_bytes == memory_write_total(h, size)
      IN [handle |-> [h EXCEPT !.data.pos = h.data.pos + total_bytes],
          ret |-> total_bytes,
          memory |-> MemStore(mem, h.data.pos, Take(source, total_bytes))]

\* zio__const_memory_write that writes as the mutable handle does
zio__const_memory_write_through(h, mem, source, size) ==
    zio__memory_write(h, mem, source, size)

zio__const_memory_write(h, mem, source, size) ==
    [handle |-> zio__set_error(h, "Cannot write to const memory"),
     ret |-> ZIO_ERROR, memory |-> mem]

\* ------------------------------------------------------------------------
\* The C library's streams, as far as z_io.h uses them
\* ------------------------------------------------------------------------
NoStream ==
    [open |-> FALSE, canRead |-> FALSE, canWrite |-> FALSE, pos |-> 0,
     err |-> FALSE]

\* the mode string with the READ flag tested before the WRITE flag
mode_flags_readfirst(mode) ==
    (IF zio__test_flag(mode, ZIOM_READ) THEN <<"r">>
     ELSE IF zio__test_flag(mode, ZIOM_WRITE) THEN <<"w">> ELSE <<>>)
    \o (IF zio__test_flag(mode, 3) THEN <<"+">> ELSE <<>>)
    \o <<"b">>

\* the mode string zio_open_file builds
mode_flags(mode) ==
    (IF zio__test_flag(mode, ZIOM_WRITE) THEN <<"w">>
     ELSE IF zio__test_flag(mode, ZIOM_READ) THEN <<"r">> ELSE <<>>)
    \o (IF zio__test_flag(mode, 3) THEN <<"+">> ELSE <<>>)
    \o <<"b">>

\* fopen: osok is whether the operating system grants the open
fopen(d, flags, osok) ==
    LET fresh(r, w) == [open |-> TRUE, canRead |-> r, canWrite |-> w,
                        pos |-> 0, err |-> FALSE]
        fail == [file |-> NULL, stream |-> NoStream, disk |-> d]
    IN IF ~osok THEN fail
       ELSE IF flags = <<"w", "b">>
       THEN [file |-> FilePtr, stream |-> fresh(FALSE, TRUE),
             disk |-> [exists |-> TRUE, data |-> <<>>]]
       ELSE IF flags = <<"w", "+", "b">>
       THEN [file |-> FilePtr, stream |-> fresh(TRUE, TRUE),
             disk |-> [exists |-> TRUE, data |-> <<>>]]
       ELSE IF flags = <<"r", "b">> /\ d.exists
       THEN [file |-> FilePtr, stream |-> fresh(TRUE, FALSE), disk |-> d]
       ELSE IF flags = <<"r", "+", "b">> /\ d.exists
       THEN [file |-> FilePtr, stream |-> fresh(TRUE, TRUE), disk |-> d]
       ELSE fail

\* fseek: 0 on success; a target before the start of the file, an unknown
\* whence or a failure of the operating system leave the position alone
fseek(st, d, offset, whence, osok) ==
    LET target == CASE whence = ZIO_SEEK_SET -> offset
                    [] whence = ZIO_SEEK_CUR -> st.pos + offset
                    [] whence = ZIO_SEEK_END -> Len(d.data) + offset
                    [] OTHER -> 0 - 1
    IN IF osok /\ target >= 0
       THEN [rc |-> 0, stream |-> [st EXCEPT !.pos = target]]
       ELSE [rc |-> 0 - 1, stream |-> st]

\* ftell: the position, or -1 when the operating system fails
ftell(st, osok) == IF osok THEN st.pos ELSE 0 - 1

\* fread(destination, size, 1, stream): the count of whole items read
fread(st, d, size, osok) ==
    IF size = 0 THEN [n |-> 0, stream |-> st, bytes |-> <<>>]
    ELSE IF ~st.canRead \/ ~osok
    THEN [n |-> 0, stream |-> [st EXCEPT !.err = TRUE], bytes |-> <<>>]
    ELSE
      LET avail == Max(0, Len(d.data) - st.pos)
          got == Min(avail, size)
          bytes == [i \in 1 .. got |-> d.data[st.pos + i]]
      IN IF got = size
         THEN [n |-> 1, stream |-> [st EXCEPT !.pos = st.pos + got], bytes |-> bytes]
         ELSE [n |-> 0, stream |-> [st EXCEPT !.pos = st.pos + got],
               bytes |-> bytes]

\* fwrite(source, size, 1, stream): the count of whole items written; a
\* write beyond the end of the file fills the gap with zero bytes
fwrite(st, d, source, size, osok) ==
    IF size = 0 THEN [n |-> 0, stream |-> st, disk |-> d]
    ELSE IF ~st.canWrite \/ ~osok
    THEN [n |-> 0, stream |-> [st EXCEPT !.err = TRUE], disk |-> d]
    ELSE
      LET newlen == Max(Len(d.data), st.pos + size)
          data == [i \in 1 .. newlen |->
                     IF i > st.pos /\ i <= st.pos + size THEN source[i - st.pos]
                     ELSE IF i <= Len(d.data) THEN d.data[i] ELSE 0]
      IN [n |-> 1, stream |-> [st EXCEPT !.pos = st.pos + size],
          disk |-> [d EXCEPT !.data = data]]

\* fclose: the stream is gone whether or not the close succeeds
fclose(st, osok) == [rc |-> IF osok THEN 0 ELSE 0 - 1, stream |-> NoStream]

\* ------------------------------------------------------------------------
\* File I/O
\* ------------------------------------------------------------------------
\* zio__file_close that resets the handle whether or not fclose succeeds
zio__file_close_always_zero(h, st, osok) ==
    LET c == fclose(st, osok)
    IN IF c.rc # 0
       THEN [handle |-> zio__set_error(zio__zero_handle(h), "strerror"),
             ret |-> ZIO_ERROR, stream |-> c.stream]
       ELSE [handle |-> zio__zero_handle(h), ret |-> ZIO_OK, stream |-> c.stream]

zio__file_close(h, st, osok) ==
    LET c == fclose(st, osok)
    IN IF c.rc # 0
       THEN [handle |-> zio__set_error(h, "strerror"), ret |-> ZIO_ERROR,
             stream |-> c.stream]
       ELSE [handle |-> zio__zero_handle(h), ret |-> ZIO_OK, stream |-> c.stream]

\* os is <<fseek succeeds, ftell succeeds>>
zio__file_seek(h, st, d, offset, whence, os) ==
    LET s == fseek(st, d, offset, whence, os[1])
    IN IF s.rc # 0
       THEN [handle |-> zio__set_error(h, "strerror"), ret |-> ZIO_ERROR,
             stream |-> s.stream]
       ELSE [handle |-> h, ret |-> ftell(s.stream, os[2]), stream |-> s.stream]

\* zio__file_size that does not seek back to where the stream was
zio__file_size_norestore(h, st, d, os) ==
    LET t == zio__file_seek(h, st, d, 0, ZIO_SEEK_CUR, os[1])
    IN IF t.ret = ZIO_ERROR
       THEN [handle |-> t.handle, ret |-> ZIO_ERROR, stream |-> t.stream]
       ELSE
         LET e == zio__file_seek(t.handle, t.stream, d, 0, ZIO_SEEK_END, os[2])
         IN [handle |-> e.handle, ret |-> e.ret, stream |-> e.stream]

\* os is the sequence of the three seeks' operating-system outcomes
zio__file_size(h, st, d, os) ==
    LET t == zio__file_seek(h, st, d, 0, ZIO_SEEK_CUR, os[1])
    IN IF t.ret = ZIO_ERROR
       THEN [handle |-> t.handle, ret |-> ZIO_ERROR, stream |-> t.stream]
       ELSE
         LET e == zio__file_seek(t.handle, t.stream, d, 0, ZIO_SEEK_END, os[2])
             r == zio__file_seek(e.handle, e.stream, d, t.ret, ZIO_SEEK_SET, os[3])
         IN [handle |-> r.handle, ret |-> e.ret, stream |-> r.stream]

zio__file_read(h, st, d, size, osok) ==
    LET f == fread(st, d, size, osok)
    IN IF f.n = 0 /\ f.stream.err
       THEN [handle |-> zio__set_error(h, "strerror"), ret |-> ZIO_ERROR,
             stream |-> f.stream, dest |-> Deliver(size, f.bytes)]
       ELSE [handle |-> h, ret |-> f.n * size, stream |-> f.stream,
             dest |-> Deliver(size, f.bytes)]

\* zio__file_write that does not look at the stream's error flag
zio__file_write_noferror(h, st, d, source, size, osok) ==
    LET f == fwrite(st, d, source, size, osok)
    IN [handle |-> h, ret |-> f.n * size, stream |-> f.stream, disk |-> f.disk]

zio__file_write(h, st, d, source, size, osok) ==
    LET f == fwrite(st, d, source, size, osok)
    IN IF f.n = 0 /\ f.stream.err
       THEN [handle |-> zio__set_error(h, "strerror"), ret |-> ZIO_ERROR,
             stream |-> f.stream, disk |-> f.disk]
       ELSE [handle |-> h, ret |-> f.n * size, stream |-> f.stream,
             disk |-> f.disk]

\* ------------------------------------------------------------------------
\* The three factories
\* ------------------------------------------------------------------------
\* zio_open_file that resets the handle only once the file is open
zio_open_file_latezero(h, d, mode, osok) ==
    LET zeroed == zio__zero_handle(h)
        f == fopen(d, mode_flags(mode), osok)
    IN IF f.file = NULL
       THEN [handle |-> zio__set_error(h, "strerror"), ret |-> ZIO_ERROR,
             stream |-> f.stream, disk |-> f.disk]
       ELSE [handle |-> [zeroed EXCEPT !.data.file = f.file,
                                       !.close = "zio__file_close",
                                       !.size = "zio__file_size",
                                       !.seek = "zio__file_seek",
                                       !.read = "zio__file_read",
                                       !.write = "zio__file_write"],
             ret |-> ZIO_OK, stream |-> f.stream, disk |-> f.disk]

zio_open_file(h, d, mode, osok) ==
    LET zeroed == zio__zero_handle(h)
        f == fopen(d, mode_flags(mode), osok)
    IN IF f.file = NULL
       THEN [handle |-> zio__set_error(zeroed, "strerror"), ret |-> ZIO_ERROR,
             stream |-> f.stream, disk |-> f.disk]
       ELSE [handle |-> [zeroed EXCEPT !.data.file = f.file,
                                       !.close = "zio__file_close",
                                       !.size = "zio__file_size",
                                       !.seek = "zio__file_seek",
                                       !.read = "zio__file_read",
                                       !.write = "zio__file_write"],
             ret |-> ZIO_OK, stream |-> f.stream, disk |-> f.disk]

\* zio_open_memory that refuses an empty region as well
zio_open_memory_nonempty(h, mem, size) ==
    LET zeroed == zio__zero_handle(h)
    IN IF mem = NULL \/ size <= 0
       THEN [handle |-> zio__set_error(zeroed, "Invalid memory or size"),
             ret |-> ZIO_ERROR]
       ELSE [handle |-> [zeroed EXCEPT !.data.begin = mem,
                                       !.data.pos = mem,
                                       !.data.end = mem + size,
                                       !.close = "zio__memory_close",
                                       !.size = "zio__memory_size",
                                       !.seek = "zio__memory_seek",
                                       !.read = "zio__memory_read",
                                       !.write = "zio__memory_write"],
             ret |-> ZIO_OK]

zio_open_memory(h, mem, size) ==
    LET zeroed == zio__zero_handle(h)
    IN IF mem = NULL \/ size < 0
       THEN [handle |-> zio__set_error(zeroed, "Invalid memory or size"),
             ret |-> ZIO_ERROR]
       ELSE [handle |-> [zeroed EXCEPT !.data.begin = mem,
                                       !.data.pos = mem,
                                       !.data.end = mem + size,
                                       !.close = "zio__memory_close",
                                       !.size = "zio__memory_size",
                                       !.seek = "zio__memory_seek",
                                       !.read = "zio__memory_read",
                                       !.write = "zio__memory_write"],
             ret |-> ZIO_OK]

zio_open_const_memory(h, mem, size) ==
    LET zeroed == zio__zero_handle(h)
    IN IF mem = NULL \/ size < 0
       THEN [handle |-> zio__set_error(zeroed, "Invalid memory or size"),
             ret |-> ZIO_ERROR]
       ELSE [handle |-> [zeroed EXCEPT !.data.begin = mem,
                                       !.data.pos = mem,
                                       !.data.end = mem + size,
                                       !.close = "zio__memory_close",
                                       !.size = "zio__memory_size",
                                       !.seek = "zio__memory_seek",
                                       !.read = "zio__memory_read",
                                       !.write = "zio__const_memory_write"],
             ret |-> ZIO_OK]

\* ------------------------------------------------------------------------
\* The state machine: one action per call of the public interface, which
\* dispatches through the function pointer the factory stored
\* ------------------------------------------------------------------------
Pre == [handle |-> handle, memory |-> memory, stream |-> stream, disk |-> disk]

\* what is kept of a call once the caller has taken its result: which
\* call it was, what it returned, whether it asked for more bytes than
\* were left, and whether the operating system served all its requests
NoPrev == [op |-> "none", ret |-> 0, short |-> FALSE, osok |-> TRUE]

\* the record of a call, before its arguments and result are filled in
Call(op) ==
    [op |-> op, mode |-> 0, ptr |-> NULL, size |-> 0, offset |-> 0,
     whence |-> 0, source |-> <<>>, ret |-> 0, dest |-> <<>>, pre |-> Pre,
     prev |-> last.prev, osok |-> TRUE]

NoCall ==
    [op |-> "none", mode |-> 0, ptr |-> NULL, size |-> 0, offset |-> 0,
     whence |-> 0, source |-> <<>>, ret |-> 0, dest |-> <<>>, pre |-> Pre,
     prev |-> NoPrev, osok |-> TRUE]

\* no call is in progress: the caller has taken the result of the last one
Idle == last.op = "none"

Summary(c) ==
    [op |-> c.op, ret |-> c.ret, osok |-> c.osok,
     short |-> /\ c.op \in {"read", "write"}
               /\ IF c.pre.handle.read = "zio__memory_read"
                  THEN c.size > c.pre.handle.data.end - c.pre.handle.data.pos
                  ELSE c.size > Len(c.pre.disk.data) - c.pre.stream.pos]

\* the caller takes the result of the call; the next call can be made
Return ==
    /\ ~Idle
    /\ last' = [NoCall EXCEPT !.prev = Summary(last)]
    /\ UNCHANGED <<handle, memory, stream, disk, rt, pair, zfs, copy, dir>>

NoDisk == [exists |-> FALSE, data |-> <<>>]

RTIdle == [pc |-> "idle", round |-> 1, cap |-> 0, s |-> <<>>, w |-> 0,
           k |-> 0, r |-> 0, out |-> <<>>]

\* no pair of handles under comparison: the handle of the file side, the
\* last operation applied to both sides, and what each side returned and
\* delivered
NoPair == [op |-> "none", fh |-> ZeroHandle, size |-> 0, offset |-> 0,
           whence |-> 0, rf |-> 0, rm |-> 0, df |-> <<>>, dm |-> <<>>]

\* no path function called: the function, its arguments, the result buffer
\* after the call, and the platform the header was compiled for
NoPath == [fn |-> "none", result_size |-> 0, path |-> <<>>, other |-> <<>>,
           result |-> <<>>, platform |-> "ZFS_POSIX"]

ZFS_FALSE == FALSE

ZFS_TRUE == TRUE

\* no file function called: the source and the destination file, what the
\* call returned, and which of its requests the operating system failed
NoCopy == [op |-> "none", source |-> NoDisk, destination |-> NoDisk,
           ret |-> ZFS_FALSE, source_open_failed |-> FALSE,
           destination_open_failed |-> FALSE, read_failed |-> FALSE,
           short_write |-> FALSE]

\* no traversal: the directory (does it exist, its entries in the order the
\* system lists them), the system's handle on it (state, entries handed
\* out, times opened and closed for this traversal), the context's two
\* fields, the last call and its result, the names the caller was shown,
\* and whether a request of the traversal has failed
NoDir == [op |-> "none", ret |-> ZFS_FALSE, exists |-> FALSE,
          entries |-> <<>>, state |-> "none", cursor |-> 0, opens |-> 0,
          closes |-> 0, handle |-> "NULL", data |-> "NULL",
          visited |-> <<>>, failed |-> FALSE, active |-> FALSE]

\* the sources of size bytes a caller can hand to write
Sources(size) == [1 .. Max(size, 0) -> Byte]

\* does base + offset leave the address space, so that the outcomes differ
Overflows(p, off) == (p + off) < 0 \/ (p + off) >= AddrSpace

Init ==
    /\ handle = ZeroHandle
    /\ memory \in [1 .. MaxCap -> Byte]
    /\ stream = NoStream
    /\ disk = NoDisk
    /\ last = NoCall
    /\ rt = RTIdle
    /\ pair = NoPair
    /\ zfs = NoPath
    /\ copy = NoCopy
    /\ dir = NoDir

OpenMemory ==
    /\ Idle
    /\ \E mem \in {NULL, MemAddr}, size \in (0 - 1) .. MaxCap :
      LET r == zio_open_memory(handle, mem, size)
      IN /\ handle' = r.handle
         /\ last' = [Call("open_memory") EXCEPT !.ptr = mem, !.size = size,
                                                !.ret = r.ret]
         /\ UNCHANGED <<memory, stream, disk, rt, pair, zfs, copy, dir>>

OpenConstMemory ==
    /\ Idle
    /\ \E mem \in {NULL, MemAddr}, size \in (0 - 1) .. MaxCap :
      LET r == zio_open_const_memory(handle, mem, size)
      IN /\ handle' = r.handle
         /\ last' = [Call("open_const_memory") EXCEPT !.ptr = mem,
                                                      !.size = size,
                                                      !.ret = r.ret]
         /\ UNCHANGED <<memory, stream, disk, rt, pair, zfs, copy, dir>>

CloseMemory ==
    /\ Idle
    /\ handle.close = "zio__memory_close"
    /\ LET r == zio__memory_close(handle)
       IN /\ handle' = r.handle
          /\ last' = [Call("close") EXCEPT !.ret = r.ret]
    /\ UNCHANGED <<memory, stream, disk, rt, pair, zfs, copy, dir>>

SizeMemory ==
    /\ Idle
    /\ handle.size = "zio__memory_size"
    /\ last' = [Call("size") EXCEPT !.ret = zio__memory_size(handle)]
    /\ UNCHANGED <<handle, memory, stream, disk, rt, pair, zfs, copy, dir>>

SeekMemoryCall(op, offset, whence) ==
    /\ Idle
    /\ handle.seek = "zio__memory_seek"
    /\ LET base == CASE whence = ZIO_SEEK_SET -> handle.data.begin
                     [] whence = ZIO_SEEK_CUR -> handle.data.pos
                     [] OTHER -> handle.data.end
       IN \E ub \in (IF Overflows(base, offset) THEN UBOutcomes ELSE {"wrap"}) :
            LET r == zio__memory_seek(handle, offset, whence, ub)
            IN /\ handle' = r.handle
               /\ last' = [Call(op) EXCEPT !.offset = offset,
                                           !.whence = whence, !.ret = r.ret]
    /\ UNCHANGED <<memory, stream, disk, rt, pair, zfs, copy, dir>>

SeekMemory == \E offset \in Offsets, whence \in 0 .. 3 : SeekMemoryCall("seek", offset, whence)

\* zio_tell is seek(handle, 0, ZIO_SEEK_CUR)
TellMemory == SeekMemoryCall("tell", 0, ZIO_SEEK_CUR)

ReadMemory ==
    /\ Idle
    /\ handle.read = "zio__memory_read"
    /\ \E size \in Counts :
         LET r == zio__memory_read(handle, memory, size)
         IN /\ handle' = r.handle
            /\ last' = [Call("read") EXCEPT !.size = size, !.ret = r.ret,
                                            !.dest = r.dest]
    /\ UNCHANGED <<memory, stream, disk, rt, pair, zfs, copy, dir>>

WriteMemory ==
    /\ Idle
    /\ handle.write = "zio__memory_write"
    /\ \E size \in Counts : \E source \in Sources(size) :
         LET r == zio__memory_write(handle, memory, source, size)
         IN /\ handle' = r.handle
            /\ memory' = r.memory
            /\ last' = [Call("write") EXCEPT !.size = size, !.source = source,
                                             !.ret = r.ret]
    /\ UNCHANGED <<stream, disk, rt, pair, zfs, copy, dir>>

WriteConstMemory ==
    /\ Idle
    /\ handle.write = "zio__const_memory_write"
    /\ \E size \in Counts : \E source \in Sources(size) :
         LET r == zio__const_memory_write(handle, memory, source, size)
         IN /\ handle' = r.handle
            /\ memory' = r.memory
            /\ last' = [Call("write") EXCEPT !.size = size, !.source = source,
                                             !.ret = r.ret]
    /\ UNCHANGED <<stream, disk, rt, pair, zfs, copy, dir>>

Next ==
    \/ OpenMemory
    \/ OpenConstMemory
    \/ CloseMemory
    \/ SizeMemory
    \/ SeekMemory
    \/ TellMemory
    \/ ReadMemory
    \/ WriteMemory
    \/ WriteConstMemory
    \/ Return

\* the memory-backed handles
Spec == Init /\ [][Next]_vars

\* ------------------------------------------------------------------------
\* The file-backed handles
\* ------------------------------------------------------------------------
\* the outcomes of the operating system for one fseek and its ftell
OSSeek == {<<TRUE, TRUE>>, <<FALSE, TRUE>>, <<TRUE, FALSE>>}

\* the outcomes for the three seeks of zio__file_size; the second and the
\* third seek are not made when the first fails
OSSize ==
    {os \in OSSeek \X OSSeek \X OSSeek :
        os[1] # <<TRUE, TRUE>> => (os[2] = <<TRUE, TRUE>> /\ os[3] = <<TRUE, TRUE>>)}

InBounds(st, d) == st.pos <= MaxFileLen /\ Len(d.data) <= MaxFileLen

OpenFile ==
    /\ Idle
    /\ \E mode \in 0 .. 3, osok \in BOOLEAN :
      LET r == zio_open_file(handle, disk, mode, osok)
      IN /\ handle' = r.handle
         /\ stream' = r.stream
         /\ disk' = r.disk
         /\ last' = [Call("open_file") EXCEPT !.mode = mode, !.ret = r.ret,
                                              !.osok = osok]
         /\ UNCHANGED <<memory, rt, pair, zfs, copy, dir>>

CloseFile ==
    /\ Idle
    /\ handle.close = "zio__file_close"
    /\ stream.open
    /\ \E osok \in BOOLEAN :
         LET r == zio__file_close(handle, stream, osok)
         IN /\ handle' = r.handle
            /\ stream' = r.stream
            /\ last' = [Call("close") EXCEPT !.ret = r.ret, !.osok = osok]
    /\ UNCHANGED <<memory, disk, rt, pair, zfs, copy, dir>>

SizeFile ==
    /\ Idle
    /\ handle.size = "zio__file_size"
    /\ stream.open
    /\ \E os \in OSSize :
         LET r == zio__file_size(handle, stream, disk, os)
         IN /\ handle' = r.handle
            /\ stream' = r.stream
            /\ last' = [Call("size") EXCEPT
                           !.ret = r.ret,
                           !.osok = \A i \in 1 .. 3 : os[i] = <<TRUE, TRUE>>]
    /\ UNCHANGED <<memory, disk, rt, pair, zfs, copy, dir>>

SeekFileCall(op, offset, whence) ==
    /\ Idle
    /\ handle.seek = "zio__file_seek"
    /\ stream.open
    /\ \E os \in OSSeek :
         LET r == zio__file_seek(handle, stream, disk, offset, whence, os)
         IN /\ InBounds(r.stream, disk)
            /\ handle' = r.handle
            /\ stream' = r.stream
            /\ last' = [Call(op) EXCEPT !.offset = offset, !.whence = whence,
                                        !.ret = r.ret,
                                        !.osok = (os = <<TRUE, TRUE>>)]
    /\ UNCHANGED <<memory, disk, rt, pair, zfs, copy, dir>>

SeekFile == \E offset \in FileOffsets, whence \in 0 .. 3 : SeekFileCall("seek", offset, whence)

TellFile == SeekFileCall("tell", 0, ZIO_SEEK_CUR)

ReadFile ==
    /\ Idle
    /\ handle.read = "zio__file_read"
    /\ stream.open
    /\ \E size \in FileCounts, osok \in BOOLEAN :
         LET r == zio__file_read(handle, stream, disk, size, osok)
         IN /\ handle' = r.handle
            /\ stream' = r.stream
            /\ last' = [Call("read") EXCEPT !.size = size, !.ret = r.ret,
                                            !.dest = r.dest, !.osok = osok]
    /\ UNCHANGED <<memory, disk, rt, pair, zfs, copy, dir>>

WriteFile ==
    /\ Idle
    /\ handle.write = "zio__file_write"
    /\ stream.open
    /\ \E size \in FileCounts, osok \in BOOLEAN : \E source \in Sources(size) :
         LET r == zio__file_write(handle, stream, disk, source, size, osok)
         IN /\ InBounds(r.stream, r.disk)
            /\ handle' = r.handle
            /\ stream' = r.stream
            /\ disk' = r.disk
            /\ last' = [Call("write") EXCEPT !.size = size, !.source = source,
                                             !.ret = r.ret, !.osok = osok]
    /\ UNCHANGED <<memory, rt, pair, zfs, copy, dir>>

\* the caller deletes the file, as the test does once its handle is closed
Remove ==
    /\ Idle
    /\ ~stream.open
    /\ disk.exists
    /\ disk' = NoDisk
    /\ last' = Call("remove")
    /\ UNCHANGED <<handle, memory, stream, rt, pair, zfs, copy, dir>>

InitFile ==
    /\ handle = ZeroHandle
    /\ memory = [i \in 1 .. MaxCap |-> 0]
    /\ stream = NoStream
    /\ disk = NoDisk
    /\ last = NoCall
    /\ rt = RTIdle
    /\ pair = NoPair
    /\ zfs = NoPath
    /\ copy = NoCopy
    /\ dir = NoDir

NextFile ==
    \/ OpenFile
    \/ CloseFile
    \/ SizeFile
    \/ SeekFile
    \/ TellFile
    \/ ReadFile
    \/ WriteFile
    \/ Remove
    \/ Return

SpecFile == InitFile /\ [][NextFile]_vars

\* ------------------------------------------------------------------------
\* The round-trip test case: open_memory, write, seek to 0, read back
\* ------------------------------------------------------------------------
InitRT ==
    /\ handle = ZeroHandle
    /\ memory \in [1 .. MaxCap -> Byte]
    /\ stream = NoStream
    /\ disk = NoDisk
    /\ last = NoCall
    /\ rt = [RTIdle EXCEPT !.pc = "open"]
    /\ pair = NoPair
    /\ zfs = NoPath
    /\ copy = NoCopy
    /\ dir = NoDir

RTOpen ==
    /\ rt.pc = "open"
    /\ \E cap \in 0 .. MaxCap :
         LET r == zio_open_memory(handle, MemAddr, cap)
         IN /\ r.ret = ZIO_OK
            /\ handle' = r.handle
            /\ last' = [Call("open_memory") EXCEPT !.ptr = MemAddr,
                                                   !.size = cap, !.ret = r.ret]
            /\ rt' = [rt EXCEPT !.pc = "write", !.cap = cap]
    /\ UNCHANGED <<memory, stream, disk, pair, zfs, copy, dir>>

RTWrite ==
    /\ rt.pc = "write"
    /\ handle.write = "zio__memory_write"
    /\ \E L \in 1 .. rt.cap : \E source \in Sources(L) :
         LET r == zio__memory_write(handle, memory, source, L)
         IN /\ handle' = r.handle
            /\ memory' = r.memory
            /\ last' = [Call("write") EXCEPT !.size = L, !.source = source,
                                             !.ret = r.ret]
            /\ rt' = [rt EXCEPT !.pc = "seek", !.s = source, !.w = r.ret]
    /\ UNCHANGED <<stream, disk, pair, zfs, copy, dir>>

RTSeek ==
    /\ rt.pc = "seek"
    /\ handle.seek = "zio__memory_seek"
    /\ LET r == zio__memory_seek(handle, 0, ZIO_SEEK_SET, "wrap")
       IN /\ handle' = r.handle
          /\ last' = [Call("seek") EXCEPT !.ret = r.ret]
          /\ rt' = [rt EXCEPT !.pc = "read", !.k = r.ret]
    /\ UNCHANGED <<memory, stream, disk, pair, zfs, copy, dir>>

RTRead ==
    /\ rt.pc = "read"
    /\ handle.read = "zio__memory_read"
    /\ LET r == zio__memory_read(handle, memory, Len(rt.s))
       IN /\ handle' = r.handle
          /\ last' = [Call("read") EXCEPT !.size = Len(rt.s), !.ret = r.ret,
                                          !.dest = r.dest]
          /\ rt' = [rt EXCEPT !.pc = "done", !.r = r.ret, !.out = r.dest]
    /\ UNCHANGED <<memory, stream, disk, pair, zfs, copy, dir>>

\* the case is run again on the same handle, from position 0
RTAgain ==
    /\ rt.pc = "done"
    /\ rt.round < MaxRounds
    /\ handle.seek = "zio__memory_seek"
    /\ LET r == zio__memory_seek(handle, 0, ZIO_SEEK_SET, "wrap")
       IN /\ r.ret = 0
          /\ handle' = r.handle
          /\ last' = [Call("seek") EXCEPT !.ret = r.ret]
          /\ rt' = [RTIdle EXCEPT !.pc = "write", !.cap = rt.cap,
                                  !.round = rt.round + 1]
    /\ UNCHANGED <<memory, stream, disk, pair, zfs, copy, dir>>

NextRT == RTOpen \/ RTWrite \/ RTSeek \/ RTRead \/ RTAgain

SpecRT == InitRT /\ [][NextRT]_vars

\* ------------------------------------------------------------------------
\* A file opened for reading and a const-memory handle over the same bytes,
\* driven by the same calls: handle, memory are the memory side and pair.fh,
\* stream, disk the file side. The operating system serves every request.
\* ------------------------------------------------------------------------
OSOk == <<TRUE, TRUE>>

InitPair ==
    /\ memory \in [1 .. MaxCap -> Byte]
    /\ \E N \in 0 .. Min(MaxCap, MaxFileLen) :
         LET d == [exists |-> TRUE, data |-> Take(memory, N)]
             f == zio_open_file(ZeroHandle, d, ZIOM_READ, TRUE)
             m == zio_open_const_memory(ZeroHandle, MemAddr, N)
         IN /\ handle = m.handle
            /\ stream = f.stream
            /\ disk = f.disk
            /\ pair = [NoPair EXCEPT !.fh = f.handle]
    /\ last = NoCall
    /\ rt = RTIdle
    /\ zfs = NoPath
    /\ copy = NoCopy
    /\ dir = NoDir

\* the position base + offset lies within the content
PairTarget(offset, whence) ==
    LET N == handle.data.end - handle.data.begin
        base == CASE whence = ZIO_SEEK_SET -> 0
                  [] whence = ZIO_SEEK_CUR -> handle.data.pos - handle.data.begin
                  [] whence = ZIO_SEEK_END -> N
    IN base + offset \in 0 .. N

PairSeekCall(op, offset, whence) ==
    LET m == zio__memory_seek(handle, offset, whence, "nowrap")
        f == zio__file_seek(pair.fh, stream, disk, offset, whence, OSOk)
    IN /\ handle' = m.handle
       /\ stream' = f.stream
       /\ pair' = [NoPair EXCEPT !.op = op, !.fh = f.handle,
                                 !.offset = offset, !.whence = whence,
                                 !.rf = f.ret, !.rm = m.ret]
       /\ UNCHANGED <<memory, disk, last, rt, zfs, copy, dir>>

PairSeek ==
    \E offset \in FileOffsets,
       whence \in {ZIO_SEEK_SET, ZIO_SEEK_CUR, ZIO_SEEK_END} :
        /\ PairTarget(offset, whence)
        /\ PairSeekCall("seek", offset, whence)

PairTell == PairSeekCall("tell", 0, ZIO_SEEK_CUR)

PairSize ==
    LET f == zio__file_size(pair.fh, stream, disk, <<OSOk, OSOk, OSOk>>)
    IN /\ stream' = f.stream
       /\ pair' = [NoPair EXCEPT !.op = "size", !.fh = f.handle,
                                 !.rf = f.ret, !.rm = zio__memory_size(handle)]
       /\ UNCHANGED <<handle, memory, disk, last, rt, zfs, copy, dir>>

PairRead ==
    \E size \in 1 .. MaxCap + 1 :
        LET m == zio__memory_read(handle, memory, size)
            f == zio__file_read(pair.fh, stream, disk, size, TRUE)
        IN /\ handle' = m.handle
           /\ stream' = f.stream
           /\ pair' = [NoPair EXCEPT !.op = "read", !.fh = f.handle,
                                     !.size = size,
                                     !.rf = f.ret, !.rm = m.ret,
                                     !.df = f.dest, !.dm = m.dest]
           /\ UNCHANGED <<memory, disk, last, rt, zfs, copy, dir>>

NextPair == PairSeek \/ PairTell \/ PairSize \/ PairRead

SpecPair == InitPair /\ [][NextPair]_vars

\* ------------------------------------------------------------------------
\* z_filesystem.h: the path functions. A string argument is the sequence of
\* its characters before the terminator; the result buffer is a sequence of
\* BufLen cells of which the first result_size belong to the caller's
\* array and the rest lie behind it. C index i is cell i + 1.
\* ------------------------------------------------------------------------
NUL == "NUL"

\* a cell no call has written
Unwritten == "unwritten"

\* what a read outside a string, or a write outside the cells, leaves
Junk == "junk"

PathChars == {"/", "\\", ".", "a"}

BufLen == MaxResult + MaxPathLen + MaxExtLen + 2

FreshBuffer == [i \in 1 .. BufLen |-> Unwritten]

Smashed == [i \in 1 .. BufLen |-> Junk]

\* the strings of at most n characters
Strings(n) == UNION {[1 .. k -> PathChars] : k \in 0 .. n}

\* the argument that is the result buffer itself (result == left)
ResultPtr == <<"result">>

\* s[i] of a string: its characters, then the terminator
CharAt(s, i) ==
    IF i >= 0 /\ i < Len(s) THEN s[i + 1]
    ELSE IF i = Len(s) THEN NUL ELSE Junk

\* strlen of the buffer's content
strlen(buf) ==
    IF \E i \in 1 .. Len(buf) : buf[i] = NUL
    THEN (CHOOSE i \in 1 .. Len(buf) :
              buf[i] = NUL /\ \A j \in 1 .. i - 1 : buf[j] # NUL) - 1
    ELSE Len(buf)

\* the string a buffer holds
CStr(buf) == [i \in 1 .. strlen(buf) |-> buf[i]]

\* result[index] = c
SetChar(buf, index, c) ==
    IF index >= 0 /\ index < Len(buf) THEN [buf EXCEPT ![index + 1] = c]
    ELSE Smashed

\* memcpy(result + at, src + from, n); a negative n is a huge size_t
memcpy(buf, at, src, from, n) ==
    IF n < 0 \/ at < 0 \/ at + n > Len(buf) THEN Smashed
    ELSE [i \in 1 .. Len(buf) |->
            IF i > at /\ i <= at + n THEN CharAt(src, from + (i - at - 1))
            ELSE buf[i]]

ZFS__DIR_SEP == IF zfs.platform = "ZFS_POSIX" THEN "/" ELSE "\\"

zfs__is_dir_sep(c) == c = "/" \/ c = "\\"

RECURSIVE zfs__find_last_dir_sep(_, _)
zfs__find_last_dir_sep(path, len) ==
    LET index == len - 1
    IN IF len > 0 /\ ~zfs__is_dir_sep(path[index + 1])
       THEN zfs__find_last_dir_sep(path, index)
       ELSE index

RECURSIVE zfs__find_last_char(_, _, _)
zfs__find_last_char(path, len, c) ==
    LET index == len - 1
    IN IF len > 0 /\ path[index + 1] # c
       THEN zfs__find_last_char(path, index, c)
       ELSE index

\* zfs_path_join that keeps a separator at the start of right
zfs_path_join_keepsep(result, result_size, left, right) ==
    LET same == left = ResultPtr
        leftstr == IF same THEN CStr(result) ELSE left
        left_len0 == Len(leftstr)
        right_len1 == Len(right)
        left_len1 == IF ~same /\ left_len0 >= result_size
                     THEN result_size - 1 ELSE left_len0
        r1 == IF same THEN result ELSE memcpy(result, 0, leftstr, 0, left_len1)
        addsep == /\ left_len1 + 1 < result_size
                  /\ left_len1 > 0
                  /\ ~zfs__is_dir_sep(r1[left_len1])
        r2 == IF addsep THEN SetChar(r1, left_len1, ZFS__DIR_SEP) ELSE r1
        left_len == IF addsep THEN left_len1 + 1 ELSE left_len1
        right_len == IF left_len + right_len1 >= result_size
                     THEN result_size - left_len - 1 ELSE right_len1
        r3 == memcpy(r2, left_len, right, 0, right_len)
    IN SetChar(r3, left_len + right_len, NUL)

\* zfs_path_join that adds the separator only after copying left
zfs_path_join_copy_sep(result, result_size, left, right) ==
    LET same == left = ResultPtr
        leftstr == IF same THEN CStr(result) ELSE left
        left_len0 == Len(leftstr)
        right_len0 == Len(right)
        left_len1 == IF ~same /\ left_len0 >= result_size
                     THEN result_size - 1 ELSE left_len0
        r1 == IF same THEN result ELSE memcpy(result, 0, leftstr, 0, left_len1)
        addsep == /\ ~same
                  /\ left_len1 + 1 < result_size
                  /\ left_len1 > 0
                  /\ ~zfs__is_dir_sep(r1[left_len1])
        r2 == IF addsep THEN SetChar(r1, left_len1, ZFS__DIR_SEP) ELSE r1
        left_len == IF addsep THEN left_len1 + 1 ELSE left_len1
        skip == left_len > 0 /\ right_len0 > 0 /\ zfs__is_dir_sep(right[1])
        from == IF skip THEN 1 ELSE 0
        right_len1 == IF skip THEN right_len0 - 1 ELSE right_len0
        right_len == IF left_len + right_len1 >= result_size
                     THEN result_size - left_len - 1 ELSE right_len1
        r3 == memcpy(r2, left_len, right, from, right_len)
    IN SetChar(r3, left_len + right_len, NUL)

zfs_path_join(result, result_size, left, right) ==
    LET same == left = ResultPtr
        leftstr == IF same THEN CStr(result) ELSE left
        left_len0 == Len(leftstr)
        right_len0 == Len(right)
        left_len1 == IF ~same /\ left_len0 >= result_size
                     THEN result_size - 1 ELSE left_len0
        r1 == IF same THEN result ELSE memcpy(result, 0, leftstr, 0, left_len1)
        addsep == /\ left_len1 + 1 < result_size
                  /\ left_len1 > 0
                  /\ ~zfs__is_dir_sep(r1[left_len1])
        r2 == IF addsep THEN SetChar(r1, left_len1, ZFS__DIR_SEP) ELSE r1
        left_len == IF addsep THEN left_len1 + 1 ELSE left_len1
        skip == left_len > 0 /\ right_len0 > 0 /\ zfs__is_dir_sep(right[1])
        from == IF skip THEN 1 ELSE 0
        right_len1 == IF skip THEN right_len0 - 1 ELSE right_len0
        right_len == IF left_len + right_len1 >= result_size
                     THEN result_size - left_len - 1 ELSE right_len1
        r3 == memcpy(r2, left_len, right, from, right_len)
    IN SetChar(r3, left_len + right_len, NUL)

\* the index where the extension starts: the last period after the last
\* separator, or the end of the path
ext_index_of(path) ==
    LET len == Len(path)
        dir_sep_index == zfs__find_last_dir_sep(path, len) + 1
        ext_index == zfs__find_last_char(path, len, ".")
    IN IF ext_index < dir_sep_index THEN len ELSE ext_index

\* zfs_path_extension that takes the last period wherever it stands
zfs_path_extension_anydot(result, result_size, path) ==
    LET dot == zfs__find_last_char(path, Len(path), ".")
        ext_index == IF dot < 0 THEN Len(path) ELSE dot
        len0 == Len(path) - ext_index
        len == IF len0 >= result_size THEN result_size - 1 ELSE len0
    IN SetChar(memcpy(result, 0, path, ext_index, len), len, NUL)

\* zfs_path_extension whose clamp lets a result of result_size characters
\* through
zfs_path_extension_offbyone(result, result_size, path) ==
    LET ext_index == ext_index_of(path)
        len0 == Len(path) - ext_index
        len == IF len0 > result_size THEN result_size - 1 ELSE len0
    IN SetChar(memcpy(result, 0, path, ext_index, len), len, NUL)

zfs_path_extension(result, result_size, path) ==
    LET ext_index == ext_index_of(path)
        len0 == Len(path) - ext_index
        len == IF len0 >= result_size THEN result_size - 1 ELSE len0
    IN SetChar(memcpy(result, 0, path, ext_index, len), len, NUL)

zfs_path_set_extension(result, result_size, path, new_extension) ==
    LET same == path = ResultPtr
        pathstr == IF same THEN CStr(result) ELSE path
        ext_index0 == ext_index_of(pathstr)
        ext_index == IF ~same /\ ext_index0 >= result_size
                     THEN result_size - 1 ELSE ext_index0
        r1 == IF same THEN result ELSE memcpy(result, 0, pathstr, 0, ext_index)
        ext_len0 == Len(new_extension)
        ext_len == IF ext_index + ext_len0 >= result_size
                   THEN result_size - ext_index - 1 ELSE ext_len0
        r2 == memcpy(r1, ext_index, new_extension, 0, ext_len)
    IN SetChar(r2, ext_index + ext_len, NUL)

zfs_path_basename(result, result_size, path) ==
    LET offset == zfs__find_last_dir_sep(path, Len(path)) + 1
        len0 == Len(path) - offset
        len == IF len0 >= result_size THEN result_size - 1 ELSE len0
    IN SetChar(memcpy(result, 0, path, offset, len), len, NUL)

zfs_path_basename_without_extension(result, result_size, path) ==
    LET dir_sep_index == zfs__find_last_dir_sep(path, Len(path)) + 1
        ext_index == ext_index_of(path)
        len0 == ext_index - dir_sep_index
        len == IF len0 >= result_size THEN result_size - 1 ELSE len0
    IN SetChar(memcpy(result, 0, path, dir_sep_index, len), len, NUL)

\* zfs_path_directory that leaves the trailing separator out
zfs_path_directory_nosep(result, result_size, path) ==
    LET dir_sep_index == zfs__find_last_dir_sep(path, Len(path))
        len0 == Max(dir_sep_index, 0)
        len == IF len0 >= result_size THEN result_size - 1 ELSE len0
    IN SetChar(memcpy(result, 0, path, 0, len), len, NUL)

zfs_path_directory(result, result_size, path) ==
    LET dir_sep_index == zfs__find_last_dir_sep(path, Len(path))
        len0 == dir_sep_index + 1
        len == IF len0 >= result_size THEN result_size - 1 ELSE len0
    IN SetChar(memcpy(result, 0, path, 0, len), len, NUL)

\* every separator before the terminator becomes the platform's; a buffer
\* without a terminator is walked off its end
zfs_path_normalize_inplace(path) ==
    IF \A i \in 1 .. Len(path) : path[i] # NUL THEN Smashed
    ELSE [i \in 1 .. Len(path) |->
            IF i <= strlen(path) /\ zfs__is_dir_sep(path[i])
            THEN ZFS__DIR_SEP ELSE path[i]]

\* zfs_path_normalize that copies and leaves the separators as they are
zfs_path_normalize_copy_only(result, result_size, path) ==
    LET len0 == Len(path)
        len == IF len0 >= result_size THEN result_size - 1 ELSE len0
    IN SetChar(memcpy(result, 0, path, 0, len), len, NUL)

zfs_path_normalize(result, result_size, path) ==
    LET len0 == Len(path)
        len == IF len0 >= result_size THEN result_size - 1 ELSE len0
    IN zfs_path_normalize_inplace(
           SetChar(memcpy(result, 0, path, 0, len), len, NUL))

\* ------------------------------------------------------------------------
\* The path functions called with a result buffer of their own
\* ------------------------------------------------------------------------
InitPath ==
    /\ handle = ZeroHandle
    /\ memory = [i \in 1 .. MaxCap |-> 0]
    /\ stream = NoStream
    /\ disk = NoDisk
    /\ last = NoCall
    /\ rt = RTIdle
    /\ pair = NoPair
    /\ copy = NoCopy
    /\ dir = NoDir
    /\ \E platform \in {"ZFS_POSIX", "ZFS_WINDOWS"} :
         zfs = [NoPath EXCEPT !.platform = platform]

\* the sizes of the result buffers: the small ones, which truncate, and one
\* that holds every result in full
ResultSizes == (1 .. MaxResult) \cup {BufLen}

\* strcpy(buffer, src)
strcpy(buf, src) == memcpy(buf, 0, src, 0, Len(src) + 1)

\* the record of a call that has returned
Called(fn, result_size, path, other, result) ==
    [zfs EXCEPT !.fn = fn, !.result_size = result_size, !.path = path,
                !.other = other, !.result = result]

PathJoin ==
    /\ zfs.fn = "none"
    /\ \E result_size \in ResultSizes :
         \E left \in Strings(MaxPathLen), right \in Strings(MaxExtLen) :
           zfs' = Called("join", result_size, left, right,
                         zfs_path_join(FreshBuffer, result_size, left, right))
    /\ UNCHANGED <<handle, memory, stream, disk, last, rt, pair, copy, dir>>

PathExtension ==
    /\ zfs.fn = "none"
    /\ \E result_size \in ResultSizes, path \in Strings(MaxPathLen) :
         zfs' = Called("extension", result_size, path, <<>>,
                       zfs_path_extension(FreshBuffer, result_size, path))
    /\ UNCHANGED <<handle, memory, stream, disk, last, rt, pair, copy, dir>>

PathSetExtension ==
    /\ zfs.fn = "none"
    /\ \E result_size \in ResultSizes :
         \E path \in Strings(MaxPathLen), new_extension \in Strings(MaxExtLen) :
           zfs' = Called("set_extension", result_size, path, new_extension,
                         zfs_path_set_extension(FreshBuffer, result_size, path,
                                                new_extension))
    /\ UNCHANGED <<handle, memory, stream, disk, last, rt, pair, copy, dir>>

PathBasename ==
    /\ zfs.fn = "none"
    /\ \E result_size \in ResultSizes, path \in Strings(MaxPathLen) :
         zfs' = Called("basename", result_size, path, <<>>,
                       zfs_path_basename(FreshBuffer, result_size, path))
    /\ UNCHANGED <<handle, memory, stream, disk, last, rt, pair, copy, dir>>

PathBasenameWithoutExtension ==
    /\ zfs.fn = "none"
    /\ \E result_size \in ResultSizes, path \in Strings(MaxPathLen) :
         zfs' = Called("basename_without_extension", result_size, path, <<>>,
                       zfs_path_basename_without_extension(FreshBuffer,
                                                           result_size, path))
    /\ UNCHANGED <<handle, memory, stream, disk, last, rt, pair, copy, dir>>

PathDirectory ==
    /\ zfs.fn = "none"
    /\ \E result_size \in ResultSizes, path \in Strings(MaxPathLen) :
         zfs' = Called("directory", result_size, path, <<>>,
                       zfs_path_directory(FreshBuffer, result_size, path))
    /\ UNCHANGED <<handle, memory, stream, disk, last, rt, pair, copy, dir>>

PathNormalize ==
    /\ zfs.fn = "none"
    /\ \E result_size \in ResultSizes, path \in Strings(MaxPathLen) :
         zfs' = Called("normalize", result_size, path, <<>>,
                       zfs_path_normalize(FreshBuffer, result_size, path))
    /\ UNCHANGED <<handle, memory, stream, disk, last, rt, pair, copy, dir>>

\* zfs_path_join(buffer, sizeof(buffer), buffer, right) after
\* strcpy(buffer, left)
PathJoinInplace ==
    /\ zfs.fn = "none"
    /\ \E result_size \in ResultSizes :
         \E left \in Strings(MaxPathLen), right \in Strings(MaxExtLen) :
           /\ Len(left) < result_size
           /\ zfs' = Called("join_inplace", result_size, left, right,
                            zfs_path_join(strcpy(FreshBuffer, left),
                                          result_size, ResultPtr, right))
    /\ UNCHANGED <<handle, memory, stream, disk, last, rt, pair, copy, dir>>

\* zfs_path_set_extension(buffer, sizeof(buffer), buffer, new_extension)
\* after strcpy(buffer, path)
PathSetExtensionInplace ==
    /\ zfs.fn = "none"
    /\ \E result_size \in ResultSizes :
         \E path \in Strings(MaxPathLen), new_extension \in Strings(MaxExtLen) :
           /\ Len(path) < result_size
           /\ zfs' = Called("set_extension_inplace", result_size, path,
                            new_extension,
                            zfs_path_set_extension(strcpy(FreshBuffer, path),
                                                   result_size, ResultPtr,
                                                   new_extension))
    /\ UNCHANGED <<handle, memory, stream, disk, last, rt, pair, copy, dir>>

\* zfs_path_normalize_inplace(buffer) after strcpy(buffer, path)
PathNormalizeInplace ==
    /\ zfs.fn = "none"
    /\ \E result_size \in ResultSizes, path \in Strings(MaxPathLen) :
         /\ Len(path) < result_size
         /\ zfs' = Called("normalize_inplace", result_size, path, <<>>,
                          zfs_path_normalize_inplace(strcpy(FreshBuffer, path)))
    /\ UNCHANGED <<handle, memory, stream, disk, last, rt, pair, copy, dir>>

\* the caller has taken the result
PathReturn ==
    /\ zfs.fn # "none"
    /\ zfs' = [NoPath EXCEPT !.platform = zfs.platform]
    /\ UNCHANGED <<handle, memory, stream, disk, last, rt, pair, copy, dir>>

NextPath ==
    \/ PathJoin
    \/ PathExtension
    \/ PathSetExtension
    \/ PathBasename
    \/ PathBasenameWithoutExtension
    \/ PathDirectory
    \/ PathNormalize
    \/ PathJoinInplace
    \/ PathSetExtensionInplace
    \/ PathNormalizeInplace
    \/ PathReturn

SpecPath == InitPath /\ [][NextPath]_vars

\* ------------------------------------------------------------------------
\* z_filesystem.h: zfs_file_copy and zfs_file_delete on two files
\* ------------------------------------------------------------------------
\* fread(buffer, 1, count, stream): the number of bytes read; a failed read
\* delivers nothing and sets the stream's error flag
fread1(st, d, count, osok) ==
    IF ~st.canRead \/ ~osok
    THEN [n |-> 0, stream |-> [st EXCEPT !.err = TRUE], bytes |-> <<>>]
    ELSE
      LET avail == Max(0, Len(d.data) - st.pos)
          got == Min(avail, count)
      IN [n |-> got, stream |-> [st EXCEPT !.pos = st.pos + got],
          bytes |-> [i \in 1 .. got |-> d.data[st.pos + i]]]

\* fwrite(buffer, 1, count, stream): the number of bytes written; a failed
\* write stops one byte short
fwrite1(st, d, source, count, osok) ==
    LET done == IF st.canWrite /\ osok THEN count ELSE count - 1
        data == [i \in 1 .. Max(Len(d.data), st.pos + done) |->
                   IF i > st.pos /\ i <= st.pos + done THEN source[i - st.pos]
                   ELSE IF i <= Len(d.data) THEN d.data[i] ELSE 0]
    IN [n |-> done,
        stream |-> [st EXCEPT !.pos = st.pos + done, !.err = done # count],
        disk |-> [d EXCEPT !.data = data]]

\* the most reads the loop of zfs_file_copy makes
MaxChunks == (MaxFileLen \div BufferSize) + 1

\* what the operating system does with the requests of one zfs_file_copy:
\* the two opens, and the k-th read and the k-th write
CopyOutcomes ==
    [source_open : BOOLEAN, destination_open : BOOLEAN,
     reads : [1 .. MaxChunks -> BOOLEAN], writes : [1 .. MaxChunks -> BOOLEAN]]

\* the while loop of zfs_file_copy from its k-th turn on
RECURSIVE copy_loop(_, _, _, _, _, _)
copy_loop(source_file, source, destination_file, destination, os, k) ==
    LET r == fread1(source_file, source, BufferSize, os.reads[k])
    IN IF r.n > 0
       THEN LET w == fwrite1(destination_file, destination, r.bytes, r.n,
                             os.writes[k])
            IN IF w.n # r.n
               THEN [ret |-> ZFS_FALSE, destination |-> w.disk,
                     read_failed |-> FALSE, short_write |-> TRUE]
               ELSE copy_loop(r.stream, source, w.stream, w.disk, os, k + 1)
       ELSE [ret |-> ZFS_TRUE, destination |-> destination,
             read_failed |-> r.stream.err, short_write |-> FALSE]

\* the record of the call: the files afterwards, the result, and the
\* requests that failed
zfs_file_copy(source, destination, os) ==
    LET s == fopen(source, <<"r", "b">>, os.source_open)
    IN IF s.file = NULL
       THEN [NoCopy EXCEPT !.op = "copy", !.source = source,
                           !.destination = destination,
                           !.source_open_failed = TRUE]
       ELSE
         LET d == fopen(destination, <<"w", "b">>, os.destination_open)
         IN IF d.file = NULL
            THEN [NoCopy EXCEPT !.op = "copy", !.source = source,
                                !.destination = destination,
                                !.destination_open_failed = TRUE]
            ELSE
              LET c == copy_loop(s.stream, s.disk, d.stream, d.disk, os, 1)
              IN [NoCopy EXCEPT !.op = "copy", !.source = source,
                                !.destination = c.destination,
                                !.ret = c.ret,
                                !.read_failed = c.read_failed,
                                !.short_write = c.short_write]

\* remove(filename) == 0
zfs_file_delete(d) ==
    IF d.exists THEN [ret |-> ZFS_TRUE, disk |-> NoDisk]
    ELSE [ret |-> ZFS_FALSE, disk |-> d]

\* the files a path can name: none, or one of up to MaxFileLen bytes
Files ==
    {NoDisk} \cup
    {[exists |-> TRUE, data |-> data] :
        data \in UNION {[1 .. n -> Byte] : n \in 0 .. MaxFileLen}}

InitCopy ==
    /\ handle = ZeroHandle
    /\ memory = [i \in 1 .. MaxCap |-> 0]
    /\ stream = NoStream
    /\ disk = NoDisk
    /\ last = NoCall
    /\ rt = RTIdle
    /\ pair = NoPair
    /\ zfs = NoPath
    /\ dir = NoDir
    /\ \E source \in Files, destination \in Files :
         copy = [NoCopy EXCEPT !.source = source, !.destination = destination]

FileCopy ==
    /\ copy.op = "none"
    /\ \E os \in CopyOutcomes :
         copy' = zfs_file_copy(copy.source, copy.destination, os)
    /\ UNCHANGED <<handle, memory, stream, disk, last, rt, pair, zfs, dir>>

FileDelete ==
    /\ copy.op = "none"
    /\ \E which \in {"source", "destination"} :
         LET r == zfs_file_delete(IF which = "source" THEN copy.source
                                  ELSE copy.destination)
         IN copy' = [NoCopy EXCEPT
                        !.op = "delete", !.ret = r.ret,
                        !.source = IF which = "source" THEN r.disk
                                   ELSE copy.source,
                        !.destination = IF which = "source"
                                        THEN copy.destination ELSE r.disk]
    /\ UNCHANGED <<handle, memory, stream, disk, last, rt, pair, zfs, dir>>

\* the caller has taken the result
FileReturn ==
    /\ copy.op # "none"
    /\ copy' = [NoCopy EXCEPT !.source = copy.source,
                              !.destination = copy.destination]
    /\ UNCHANGED <<handle, memory, stream, disk, last, rt, pair, zfs, dir>>

NextCopy == FileCopy \/ FileDelete \/ FileReturn

SpecCopy == InitCopy /\ [][NextCopy]_vars

\* ------------------------------------------------------------------------
\* z_filesystem.h: directory traversal, one context over one directory
\* ------------------------------------------------------------------------
\* dir holds the directory (exists, entries in the order the system lists
\* them), the system's directory stream (state, cursor, and how often it was
\* opened and closed since the traversal began), the ZFSDir context (handle,
\* data) and what the caller has seen (visited, active, failed)
SkippedNames == {".", ".."}

NameList == <<"a", "b", "c", "d">>

Names == {NameList[i] : i \in 1 .. MaxNames}

\* the listings of a directory: names without repetition, in any order
Listings ==
    {l \in UNION {[1 .. n -> SkippedNames \cup Names] :
                     n \in 0 .. MaxNames + Cardinality(SkippedNames)} :
        \A i, j \in 1 .. Len(l) : l[i] = l[j] => i = j}

\* the calls of one traversal function that list an entry, and which of
\* them the system fails (0: none)
ListingCalls == 0 .. Cardinality(SkippedNames) + 1

opendir(d, osok) ==
    IF d.exists /\ osok
    THEN [ret |-> "DIR",
          dir |-> [d EXCEPT !.state = "open", !.cursor = 0, !.opens = @ + 1]]
    ELSE [ret |-> "NULL", dir |-> [d EXCEPT !.failed = @ \/ d.exists]]

readdir(d, osok) ==
    IF osok /\ d.cursor < Len(d.entries)
    THEN [ret |-> d.entries[d.cursor + 1],
          dir |-> [d EXCEPT !.cursor = @ + 1]]
    ELSE [ret |-> "NULL",
          dir |-> [d EXCEPT !.failed = @ \/ d.cursor < Len(d.entries)]]

closedir(d) == [d EXCEPT !.state = "closed", !.closes = @ + 1]

\* FindFirstFileA(path\*, &context->data)
FindFirstFileA(d, osok) ==
    IF d.exists /\ osok /\ Len(d.entries) > 0
    THEN [ret |-> "HANDLE",
          dir |-> [d EXCEPT !.state = "open", !.cursor = 1, !.opens = @ + 1,
                            !.data = d.entries[1]]]
    ELSE [ret |-> "INVALID_HANDLE_VALUE",
          dir |-> [d EXCEPT !.failed = @ \/ (d.exists /\ Len(d.entries) > 0)]]

\* FindNextFileA(context->handle, &context->data)
FindNextFileA(d, osok) ==
    IF osok /\ d.cursor < Len(d.entries)
    THEN [ret |-> TRUE,
          dir |-> [d EXCEPT !.cursor = @ + 1,
                            !.data = d.entries[d.cursor + 1]]]
    ELSE [ret |-> FALSE,
          dir |-> [d EXCEPT !.failed = @ \/ d.cursor < Len(d.entries)]]

FindClose(d) == [d EXCEPT !.state = "closed", !.closes = @ + 1]

\* a filter that lets ".." through
zfs__skip_directory_dot_only(context) == context.data = "."

zfs__skip_directory(context) == context.data = "." \/ context.data = ".."

\* a cleanup that forgets the handle without closing it
zfs_directory_end_noclose(context) ==
    IF zfs.platform = "ZFS_POSIX"
    THEN [context EXCEPT !.handle = "NULL", !.data = "NULL"]
    ELSE [context EXCEPT !.handle = "NULL", !.data = ""]

zfs_directory_end(context) ==
    IF zfs.platform = "ZFS_POSIX"
    THEN [closedir(context) EXCEPT !.handle = "NULL", !.data = "NULL"]
    ELSE [FindClose(context) EXCEPT !.handle = "NULL", !.data = ""]

\* the do-while loop from its k-th turn on
RECURSIVE zfs_directory_next(_, _, _)
zfs_directory_next(context, k, fail_at) ==
    IF zfs.platform = "ZFS_POSIX"
    THEN LET r == readdir(context, k # fail_at)
             c == [r.dir EXCEPT !.data = r.ret]
         IN IF c.data = "NULL" THEN [ret |-> ZFS_FALSE, dir |-> c]
            ELSE IF zfs__skip_directory(c)
            THEN zfs_directory_next(c, k + 1, fail_at)
            ELSE [ret |-> ZFS_TRUE, dir |-> c]
    ELSE LET r == FindNextFileA(context, k # fail_at)
         IN IF ~r.ret THEN [ret |-> ZFS_FALSE, dir |-> r.dir]
            ELSE IF zfs__skip_directory(r.dir)
            THEN zfs_directory_next(r.dir, k + 1, fail_at)
            ELSE [ret |-> ZFS_TRUE, dir |-> r.dir]

\* the while loop of zfs_directory_begin on Windows from its k-th turn on
RECURSIVE zfs_directory_begin_skip(_, _, _)
zfs_directory_begin_skip(context, k, fail_at) ==
    IF zfs__skip_directory(context)
    THEN LET r == FindNextFileA(context, k # fail_at)
         IN IF ~r.ret
            THEN [ret |-> ZFS_FALSE, dir |-> zfs_directory_end(r.dir)]
            ELSE zfs_directory_begin_skip(r.dir, k + 1, fail_at)
    ELSE [ret |-> ZFS_TRUE, dir |-> context]

zfs_directory_begin(context, open_ok, fail_at) ==
    IF zfs.platform = "ZFS_POSIX"
    THEN LET o == opendir(context, open_ok)
             c == [o.dir EXCEPT !.handle = o.ret, !.data = "NULL"]
         IN IF c.handle = "NULL" THEN [ret |-> ZFS_FALSE, dir |-> c]
            ELSE LET n == zfs_directory_next(c, 1, fail_at)
                 IN IF ~n.ret
                    THEN [ret |-> ZFS_FALSE, dir |-> zfs_directory_end(n.dir)]
                    ELSE [ret |-> ZFS_TRUE, dir |-> n.dir]
    ELSE LET o == FindFirstFileA(context, open_ok)
             c == [o.dir EXCEPT !.handle = o.ret]
         IN IF c.handle = "INVALID_HANDLE_VALUE"
            THEN [ret |-> ZFS_FALSE, dir |-> c]
            ELSE zfs_directory_begin_skip(c, 1, fail_at)

\* the name zfs_directory_current_filename copies into a large result
zfs_directory_current_filename(context) ==
    IF zfs.platform = "ZFS_POSIX" /\ context.data = "NULL" THEN ""
    ELSE context.data

InitDir ==
    /\ handle = ZeroHandle
    /\ memory = [i \in 1 .. MaxCap |-> 0]
    /\ stream = NoStream
    /\ disk = NoDisk
    /\ last = NoCall
    /\ rt = RTIdle
    /\ pair = NoPair
    /\ copy = NoCopy
    /\ \E platform \in {"ZFS_POSIX", "ZFS_WINDOWS"} :
         zfs = [NoPath EXCEPT !.platform = platform]
    /\ \E exists \in BOOLEAN, entries \in Listings :
         /\ ~exists => entries = <<>>
         /\ dir = [NoDir EXCEPT !.exists = exists, !.entries = entries]

\* if (zfs_directory_begin(&dir, path)), then the first filename is read
DirBegin ==
    /\ ~dir.active
    /\ \E open_ok \in BOOLEAN, fail_at \in ListingCalls :
         LET r == zfs_directory_begin(
                      [NoDir EXCEPT !.exists = dir.exists,
                                    !.entries = dir.entries,
                                    !.handle = dir.handle,
                                    !.data = dir.data], open_ok, fail_at)
         IN dir' = [r.dir EXCEPT
                       !.op = "begin", !.ret = r.ret, !.active = r.ret,
                       !.visited =
                           IF r.ret
                           THEN <<zfs_directory_current_filename(r.dir)>>
                           ELSE <<>>]
    /\ UNCHANGED <<handle, memory, stream, disk, last, rt, pair, zfs, copy>>

\* while (zfs_directory_next(&dir)), then the filename is read
DirNext ==
    /\ dir.active
    /\ \E fail_at \in ListingCalls :
         LET r == zfs_directory_next(dir, 1, fail_at)
         IN dir' = [r.dir EXCEPT
                       !.op = "next", !.ret = r.ret,
                       !.visited =
                           IF r.ret
                           THEN Append(@, zfs_directory_current_filename(r.dir))
                           ELSE @]
    /\ UNCHANGED <<handle, memory, stream, disk, last, rt, pair, zfs, copy>>

DirEnd ==
    /\ dir.active
    /\ dir' = [zfs_directory_end(dir) EXCEPT
                  !.op = "end", !.ret = ZFS_FALSE, !.active = FALSE]
    /\ UNCHANGED <<handle, memory, stream, disk, last, rt, pair, zfs, copy>>

NextDir == DirBegin \/ DirNext \/ DirEnd

SpecDir == InitDir /\ [][NextDir]_vars

\* ------------------------------------------------------------------------
\* Properties of the memory-backed handles
\* ------------------------------------------------------------------------
IsMemory(h) == h.seek = "zio__memory_seek"
PosOf(h) == h.data.pos - h.data.begin
CapOf(h) == h.data.end - h.data.begin
AvailOf(h) == h.data.end - h.data.pos
Clamp(x, lo, hi) == IF x < lo THEN lo ELSE IF x > hi THEN hi ELSE x
\* the bytes of the buffer at the offsets from + 1 .. to of the handle's region
Region(mem, from, to) == [i \in 1 .. (to - from) |-> mem[from + i]]

\* C1: on a memory-backed handle, mutable or const, the cursor stays within
\* the buffer after every call: begin <= pos <= end.
C1_PositionInBounds ==
    IsMemory(handle) =>
        /\ handle.data.begin <= handle.data.pos
        /\ handle.data.pos <= handle.data.end

\* a seek beyond the end of a non-empty buffer has been clamped to end
C1_Witness ==
    /\ IsMemory(handle)
    /\ last.op = "seek"
    /\ last.whence = ZIO_SEEK_SET
    /\ last.offset > CapOf(handle)
    /\ CapOf(handle) >= 1
    /\ handle.data.pos = handle.data.end

\* C2: a seek on a memory handle of capacity N, with whence one of the
\* three origins, sets the position to clamp(base + offset, 0, N) and
\* returns it, for every offset.
C2_SeekClamps ==
    (/\ last.op = "seek"
     /\ IsMemory(last.pre.handle)
     /\ last.whence \in {ZIO_SEEK_SET, ZIO_SEEK_CUR, ZIO_SEEK_END})
    =>
    LET h == last.pre.handle
        base == CASE last.whence = ZIO_SEEK_SET -> 0
                  [] last.whence = ZIO_SEEK_CUR -> PosOf(h)
                  [] last.whence = ZIO_SEEK_END -> CapOf(h)
        target == Clamp(base + last.offset, 0, CapOf(h))
    IN /\ last.ret = target
       /\ PosOf(handle) = target

\* C3: after open_memory, write(s, L) with 1 <= L <= capacity returns L,
\* seek(0, FROM_START) returns 0, and read of L bytes returns L and
\* delivers exactly s.
C3_RoundTrip ==
    /\ rt.pc \in {"seek", "read", "done"} => rt.w = Len(rt.s)
    /\ rt.pc \in {"read", "done"} => rt.k = 0
    /\ rt.pc = "done" => (rt.r = Len(rt.s) /\ rt.out = rt.s)

\* the round trip has completed with a sequence that fills the buffer
C3_Witness ==
    /\ rt.pc = "done"
    /\ Len(rt.s) = MaxCap
    /\ rt.out = rt.s

\* C4: every write on a const-memory handle returns ZIO_ERROR and leaves
\* the buffer and the position unchanged, so that a read on the handle
\* delivers the bytes the buffer held all along.
C4_ConstStep ==
    handle.write = "zio__const_memory_write" =>
        /\ memory' = memory
        /\ last'.op = "write" =>
              /\ last'.ret = ZIO_ERROR
              /\ handle'.data = handle.data
        /\ (last'.op = "read" /\ last'.ret >= 0) =>
              last'.dest = Deliver(last'.size,
                                   Region(memory, PosOf(handle),
                                          PosOf(handle) + last'.ret))

C4_ConstWriteFails == [][C4_ConstStep]_vars

\* a write of some bytes that differ from the buffer was refused
C4_Witness ==
    /\ last.op = "write"
    /\ last.pre.handle.write = "zio__const_memory_write"
    /\ last.size >= 1
    /\ last.size <= AvailOf(handle)
    /\ last.source # Region(memory, PosOf(handle), PosOf(handle) + last.size)
    /\ last.ret = ZIO_ERROR

\* C5: a read on a memory handle that asks for more than end - pos returns
\* end - pos, copies those bytes and leaves pos = end; the read that
\* follows it (asking for at least one byte) returns 0 and leaves pos alone.
BoundaryRead(c) ==
    /\ c.op = "read"
    /\ c.pre.handle.read = "zio__memory_read"
    /\ c.size > AvailOf(c.pre.handle)

C5_BoundaryRead ==
    /\ BoundaryRead(last) =>
          /\ last.ret = AvailOf(last.pre.handle)
          /\ last.dest = Deliver(last.size,
                                 Region(last.pre.memory, PosOf(last.pre.handle),
                                        CapOf(last.pre.handle)))
          /\ handle.data.pos = handle.data.end
    /\ (/\ last.op = "read"
        /\ last.pre.handle.read = "zio__memory_read"
        /\ last.prev.op = "read"
        /\ last.prev.short
        /\ last.size >= 1) =>
          /\ last.ret = 0
          /\ handle.data.pos = last.pre.handle.data.pos

\* the read after a boundary read that copied some bytes has returned 0
C5_Witness ==
    /\ last.op = "read"
    /\ last.pre.handle.read = "zio__memory_read"
    /\ last.prev.op = "read"
    /\ last.prev.short
    /\ last.prev.ret >= 1
    /\ last.size >= 1
    /\ last.ret = 0
    /\ handle.data.pos = handle.data.end

\* C6 as stated: for every requestedBytes >= 0 a read on a memory handle
\* returns min(requestedBytes, end - pos) as a success value, copies that
\* many bytes and advances pos by as much.
ReadTransfers(c) ==
    LET h == c.pre.handle
        k == Min(c.size, AvailOf(h))
    IN /\ c.ret = k
       /\ c.ret # ZIO_ERROR
       /\ c.dest = Deliver(c.size, Region(c.pre.memory, PosOf(h), PosOf(h) + k))
       /\ handle.data.pos = h.data.pos + k
       /\ handle.last_error = h.last_error

C6_ReadFromZero ==
    (/\ last.op = "read"
     /\ last.pre.handle.read = "zio__memory_read"
     /\ last.size >= 0)
    => ReadTransfers(last)

\* C6, amended: the same for every requestedBytes >= 1; a read of 0 bytes
\* returns ZIO_ERROR.
C6_ReadTransfers ==
    /\ (/\ last.op = "read"
        /\ last.pre.handle.read = "zio__memory_read"
        /\ last.size >= 1)
       => ReadTransfers(last)
    /\ (/\ last.op = "read"
        /\ last.pre.handle.read = "zio__memory_read"
        /\ last.size = 0)
       => last.ret = ZIO_ERROR

\* a short read has delivered some bytes, fewer than asked for
C6_Witness ==
    /\ last.op = "read"
    /\ last.pre.handle.read = "zio__memory_read"
    /\ last.ret >= 1
    /\ last.ret < last.size
    /\ PosOf(last.pre.handle) >= 1

\* C7: a write of requestedBytes >= 1 on a mutable-memory handle returns
\* k = min(requestedBytes, end - pos), overwrites the k bytes at the old
\* position with the first k source bytes, leaves every other byte alone,
\* advances pos by k and reports no error on a short write.
C7_WriteTransfers ==
    (/\ last.op = "write"
     /\ last.pre.handle.write = "zio__memory_write"
     /\ last.size >= 1)
    =>
    LET h == last.pre.handle
        k == Min(last.size, AvailOf(h))
        at == PosOf(h)
    IN /\ last.ret = k
       /\ last.ret # ZIO_ERROR
       /\ \A i \in 1 .. MaxCap :
             memory[i] = IF i > at /\ i <= at + k THEN last.source[i - at]
                         ELSE last.pre.memory[i]
       /\ handle.data.pos = h.data.pos + k
       /\ handle.last_error = h.last_error

\* a short write in the middle of the buffer has changed a byte
C7_Witness ==
    /\ last.op = "write"
    /\ last.pre.handle.write = "zio__memory_write"
    /\ PosOf(last.pre.handle) >= 1
    /\ last.ret >= 1
    /\ last.ret < last.size
    /\ memory # last.pre.memory

\* ------------------------------------------------------------------------
\* Properties of the file-backed handles
\* ------------------------------------------------------------------------
ReadOnlyStream(st) == st.open /\ st.canRead /\ ~st.canWrite
WriteOnlyStream(st) == st.open /\ st.canWrite /\ ~st.canRead
NothingDelivered(c) == \A i \in 1 .. Len(c.dest) : c.dest[i] = Untouched
\* a read on a WRITE-only handle after data was written and the position
\* was set back to 0
ReadAfterWriteAndRewind(c) ==
    /\ c.op = "read"
    /\ c.pre.handle.read = "zio__file_read"
    /\ WriteOnlyStream(c.pre.stream)
    /\ Len(c.pre.disk.data) >= 1
    /\ c.pre.stream.pos = 0
WriteOnReadOnly(c) ==
    /\ c.op = "write"
    /\ c.pre.handle.write = "zio__file_write"
    /\ ReadOnlyStream(c.pre.stream)

\* C8 as stated: every write on a file handle opened READ-only returns
\* ZIO_ERROR, and on a handle opened WRITE-only a read after writing and
\* seeking back to 0 returns ZIO_ERROR and delivers nothing.
C8_EveryCallFails ==
    /\ WriteOnReadOnly(last) => (last.ret = ZIO_ERROR /\ disk = last.pre.disk)
    /\ ReadAfterWriteAndRewind(last) =>
          (last.ret = ZIO_ERROR /\ NothingDelivered(last))

\* C8, amended: the same for every write and read of at least one byte; a
\* call of 0 bytes on a stream without an earlier error returns 0.
C8_ModeEnforced ==
    /\ (WriteOnReadOnly(last) /\ last.size >= 1) =>
          (last.ret = ZIO_ERROR /\ disk = last.pre.disk)
    /\ (ReadAfterWriteAndRewind(last) /\ last.size >= 1) =>
          (last.ret = ZIO_ERROR /\ NothingDelivered(last))
    /\ ((WriteOnReadOnly(last) \/ ReadAfterWriteAndRewind(last))
          /\ last.size = 0 /\ ~last.pre.stream.err) =>
          last.ret = 0

\* the written data was asked for on the WRITE-only handle, and refused
C8_Witness ==
    /\ ReadAfterWriteAndRewind(last)
    /\ last.size = Len(disk.data)
    /\ ~last.pre.stream.err
    /\ last.ret = ZIO_ERROR
    /\ handle.last_error = "strerror"

OpenedFile(c, mode) == c.op = "open_file" /\ c.mode = mode /\ c.ret = ZIO_OK

\* C9 as stated: a successful open with WRITE|READ leaves the contents of
\* an existing file in place, readable through the handle, and creates the
\* file if it was absent.
C9_UpdateKeepsContents ==
    OpenedFile(last, 3) =>
        /\ disk.exists
        /\ stream.canRead
        /\ last.pre.disk.exists => disk.data = last.pre.disk.data

\* C9, amended: a successful open with WRITE|READ creates the file if it
\* was absent and truncates an existing file to length 0; the handle is
\* open for reading and for writing.
C9_UpdateTruncates ==
    OpenedFile(last, 3) =>
        /\ disk.exists
        /\ disk.data = <<>>
        /\ stream.open /\ stream.canRead /\ stream.canWrite
        /\ stream.pos = 0

\* a file with contents was opened with WRITE|READ
C9_Witness ==
    /\ OpenedFile(last, 3)
    /\ last.pre.disk.exists
    /\ Len(last.pre.disk.data) >= 1

\* C10: a successful open with WRITE alone creates the file or truncates
\* it to length 0, for writing only; an open with READ alone never creates
\* or modifies the file, fails when the file is absent and is read-only.
C10_WriteTruncatesReadPreserves ==
    /\ OpenedFile(last, ZIOM_WRITE) =>
          /\ disk.exists
          /\ disk.data = <<>>
          /\ WriteOnlyStream(stream)
    /\ (last.op = "open_file" /\ last.mode = ZIOM_READ) =>
          /\ disk = last.pre.disk
          /\ ~last.pre.disk.exists => last.ret = ZIO_ERROR
          /\ last.ret = ZIO_OK => ReadOnlyStream(stream)
          /\ last.ret = ZIO_ERROR => handle.last_error # "NULL"

\* a file with contents was truncated by an open with WRITE alone
C10_Witness ==
    /\ OpenedFile(last, ZIOM_WRITE)
    /\ last.pre.disk.exists
    /\ Len(last.pre.disk.data) >= 1
    /\ disk.data = <<>>

\* ------------------------------------------------------------------------
\* Properties of the error reporting and of the observers
\* ------------------------------------------------------------------------
HandleCalls ==
    {"open_file", "open_memory", "open_const_memory", "close", "size", "seek",
     "tell", "read", "write"}

\* C11: whenever a call of the interface returns ZIO_ERROR, the handle's
\* last-error string is a message, not the null pointer.
C11_ErrorSetsLastError ==
    (last.op \in HandleCalls /\ last.ret = ZIO_ERROR) =>
        handle.last_error # "NULL"

\* the number of bytes the last call moved the stream's position by
Transferred == stream.pos - last.pre.stream.pos

\* C12: a read on a file handle returns the number of bytes it transferred,
\* which is what the file position advanced by, and it returns 0 or the
\* error indicator only when nothing was transferred or the stream failed.
C12_ReadReturnsTransferred ==
    (last.op = "read" /\ last.pre.handle.read = "zio__file_read") =>
        /\ last.ret # ZIO_ERROR => last.ret = Transferred
        /\ last.ret \in {0, ZIO_ERROR} => (Transferred = 0 \/ stream.err)

IsFile(h) == h.seek = "zio__file_seek"

\* C13: on a file handle whose seek and tell requests the operating system
\* serves, size returns the file's length and leaves the stream where it
\* was (tell after equals tell before), and a size call that directly
\* follows another returns the same value.
C13_SizeIdempotent ==
    (last.op = "size" /\ IsFile(last.pre.handle) /\ last.osok) =>
        /\ last.ret = Len(disk.data)
        /\ ftell(stream, TRUE) = ftell(last.pre.stream, TRUE)
        /\ stream = last.pre.stream
        /\ handle = last.pre.handle
        /\ (last.prev.op = "size" /\ last.prev.osok) => last.ret = last.prev.ret

\* two size calls in a row on a stream standing inside a non-empty file
C13_Witness ==
    /\ last.op = "size" /\ IsFile(last.pre.handle) /\ last.osok
    /\ last.prev.op = "size" /\ last.prev.osok
    /\ last.ret = 2
    /\ last.pre.stream.pos = 1

\* the five function pointers of a handle
Operations(h) == <<h.close, h.size, h.seek, h.read, h.write>>

NoOperations == <<"NULL", "NULL", "NULL", "NULL", "NULL">>

\* C14: zio_open_memory and zio_open_const_memory fail exactly when the
\* pointer is null or the length is negative, and then the handle has no
\* operation; otherwise they succeed with the position at the beginning
\* (tell is 0) and size equal to the length given, 0 included.
C14_OpenMemory ==
    last.op \in {"open_memory", "open_const_memory"} =>
        /\ last.ret \in {ZIO_OK, ZIO_ERROR}
        /\ last.ret = ZIO_ERROR <=> (last.ptr = NULL \/ last.size < 0)
        /\ last.ret = ZIO_ERROR => Operations(handle) = NoOperations
        /\ last.ret = ZIO_OK =>
              /\ handle.data.pos = handle.data.begin
              /\ zio__memory_seek(handle, 0, ZIO_SEEK_CUR, "nowrap").ret = 0
              /\ zio__memory_size(handle) = last.size

\* an empty region opened over a handle that was in use
C14_Witness ==
    /\ last.op = "open_memory" /\ last.size = 0 /\ last.ptr # NULL
    /\ last.ret = ZIO_OK
    /\ IsMemory(last.pre.handle) /\ PosOf(last.pre.handle) > 0

\* what a handle is bound to: its operations and the file or region
Backing(h) == <<Operations(h), h.data.file, h.data.begin, h.data.end>>

C16_MemoryClose ==
    (last.op = "close" /\ IsMemory(last.pre.handle)) =>
        /\ last.ret = ZIO_OK
        /\ handle = ZeroHandle
        /\ memory = last.pre.memory

\* the handle closed had moved from the beginning and held an error message
C16_Witness ==
    /\ last.op = "close" /\ IsMemory(last.pre.handle)
    /\ last.pre.handle.last_error # "NULL"
    /\ PosOf(last.pre.handle) > 0
    /\ \E i \in DOMAIN memory : memory[i] # 0

\* C18: when the operating system's open fails, zio_open_file returns
\* ZIO_ERROR, last_error is the system's error text, and the handle has no
\* operation and no file, whatever it held before the call.
C18_OpenFileFails ==
    last.op = "open_file" =>
        /\ ~last.osok => last.ret = ZIO_ERROR
        /\ last.ret = ZIO_ERROR =>
              /\ handle.last_error = "strerror"
              /\ Operations(handle) = NoOperations
              /\ handle.data.file = NULL
              /\ handle = [ZeroHandle EXCEPT !.last_error = "strerror"]

\* the open that failed was made on a handle with a file open
C18_Witness ==
    /\ last.op = "open_file" /\ last.ret = ZIO_ERROR
    /\ last.mode \in {ZIOM_WRITE, ZIOM_READ}
    /\ IsFile(last.pre.handle)
    /\ last.pre.handle.data.file = FilePtr

\* C19: on a memory handle size returns end - begin and tell returns
\* pos - begin; neither fails, and neither changes the position, the
\* region, the last error or the buffer.
C19_PureObservers ==
    (last.op \in {"size", "tell"} /\ IsMemory(last.pre.handle)) =>
        /\ last.op = "size" =>
              last.ret = last.pre.handle.data.end - last.pre.handle.data.begin
        /\ last.op = "tell" =>
              last.ret = last.pre.handle.data.pos - last.pre.handle.data.begin
        /\ last.ret # ZIO_ERROR
        /\ handle = last.pre.handle
        /\ memory = last.pre.memory

\* size asked right after tell, away from the beginning and with an error
\* message standing
C19_Witness ==
    /\ last.op = "size" /\ IsMemory(last.pre.handle)
    /\ last.prev.op = "tell" /\ last.prev.ret >= 1
    /\ PosOf(handle) >= 1 /\ PosOf(handle) < CapOf(handle)
    /\ handle.last_error # "NULL"

\* C17: a file opened for reading and a const-memory handle over the same
\* N bytes give the same return value and the same bytes for every seek
\* with a target in [0, N], tell, size and read of a positive count, reads
\* that ask for more than remains included.
C17_BackingAgnostic ==
    pair.op # "none" =>
        /\ pair.rf = pair.rm
        /\ pair.df = pair.dm

\* ------------------------------------------------------------------------
\* Properties of the path functions
\* ------------------------------------------------------------------------
\* what the call recorded in z writes into a buffer that is large enough
Unbounded(z) ==
    CASE z.fn \in {"join", "join_inplace"} ->
            zfs_path_join(FreshBuffer, BufLen, z.path, z.other)
      [] z.fn = "extension" -> zfs_path_extension(FreshBuffer, BufLen, z.path)
      [] z.fn \in {"set_extension", "set_extension_inplace"} ->
            zfs_path_set_extension(FreshBuffer, BufLen, z.path, z.other)
      [] z.fn = "basename" -> zfs_path_basename(FreshBuffer, BufLen, z.path)
      [] z.fn = "basename_without_extension" ->
            zfs_path_basename_without_extension(FreshBuffer, BufLen, z.path)
      [] z.fn = "directory" -> zfs_path_directory(FreshBuffer, BufLen, z.path)
      [] z.fn \in {"normalize", "normalize_inplace"} ->
            zfs_path_normalize(FreshBuffer, BufLen, z.path)

IsPrefix(s, t) == Len(s) <= Len(t) /\ \A i \in 1 .. Len(s) : s[i] = t[i]

\* C20: every path function called with a result buffer and a
\* result_size of at least 1 leaves a terminated string of at most
\* result_size - 1 characters, writes no cell at index result_size or
\* beyond, and its output is a prefix of what it produces when the buffer
\* is large enough.
C20_BoundedOutput ==
    zfs.fn # "none" =>
        /\ \E i \in 1 .. zfs.result_size : zfs.result[i] = NUL
        /\ strlen(zfs.result) <= zfs.result_size - 1
        /\ \A i \in 1 .. BufLen :
               i > zfs.result_size => zfs.result[i] = Unwritten
        /\ IsPrefix(CStr(zfs.result), CStr(Unbounded(zfs)))

\* a call whose full result does not fit the buffer it was given
C20_Witness ==
    /\ zfs.fn \in {"join", "set_extension", "extension"}
    /\ zfs.result_size >= 2
    /\ strlen(zfs.result) = zfs.result_size - 1
    /\ strlen(Unbounded(zfs)) > zfs.result_size

\* ------------------------------------------------------------------------
\* Properties of the failing calls
\* ------------------------------------------------------------------------
\* C27: when fclose fails, zio_close on a file handle returns ZIO_ERROR with
\* last_error set and leaves the operations and the file reference as they
\* were; the handle is zeroed exactly by the close whose fclose succeeds.
C27_FailedCloseKeepsHandle ==
    (last.op = "close" /\ IsFile(last.pre.handle)) =>
        /\ ~last.osok =>
              /\ last.ret = ZIO_ERROR
              /\ handle.last_error # "NULL"
              /\ Backing(handle) = Backing(last.pre.handle)
              /\ handle = [last.pre.handle EXCEPT !.last_error = "strerror"]
        /\ last.osok => (last.ret = ZIO_OK /\ handle = ZeroHandle)
        /\ Operations(handle) = NoOperations <=> last.osok

\* a close that failed on an open file handle
C27_Witness ==
    /\ last.op = "close" /\ IsFile(last.pre.handle) /\ ~last.osok
    /\ last.pre.stream.open
    /\ last.pre.handle.last_error = "NULL"
    /\ handle.data.file = FilePtr

\* C28: zio_read and zio_write on a memory handle with a size of 0 or less
\* return ZIO_ERROR, set last_error to "Invalid size" and leave the position
\* and the buffer as they were, wherever the position is.
C28_InvalidSize ==
    /\ (last.op = "read" /\ last.pre.handle.read = "zio__memory_read"
            /\ last.size <= 0) =>
          /\ last.ret = ZIO_ERROR
          /\ handle = [last.pre.handle EXCEPT !.last_error = "Invalid size"]
          /\ memory = last.pre.memory
          /\ \A i \in DOMAIN last.dest : last.dest[i] = Untouched
    /\ (last.op = "write" /\ last.pre.handle.write = "zio__memory_write"
            /\ last.size <= 0) =>
          /\ last.ret = ZIO_ERROR
          /\ handle = [last.pre.handle EXCEPT !.last_error = "Invalid size"]
          /\ memory = last.pre.memory

\* a write of no bytes at the end of a non-empty buffer, after a read of no
\* bytes
C28_Witness ==
    /\ last.op = "write" /\ last.pre.handle.write = "zio__memory_write"
    /\ last.size = 0
    /\ last.prev.op = "read" /\ last.prev.ret = ZIO_ERROR
    /\ CapOf(handle) > 0 /\ PosOf(handle) = CapOf(handle)

\* the call recorded was given the buffer that holds every result in full
LargeBuffer == zfs.result_size = BufLen

\* the largest member of a non-empty set of numbers
Last(S) == CHOOSE x \in S : \A y \in S : y <= x

\* left, one native separator unless left ends with a separator, and right
\* without one leading separator; right alone when left is empty
Joined(left, right) ==
    IF left = <<>> THEN right
    ELSE left
         \o (IF zfs__is_dir_sep(left[Len(left)]) THEN <<>> ELSE <<ZFS__DIR_SEP>>)
         \o (IF right # <<>> /\ zfs__is_dir_sep(right[1])
             THEN Tail(right) ELSE right)

\* C21: zfs_path_join into a large enough buffer gives, for a non-empty
\* left, left followed by one native separator unless left already ends with
\* a separator, followed by right without one leading separator; for an empty
\* left it gives right as it is.
C21_JoinResult ==
    (zfs.fn = "join" /\ LargeBuffer) =>
        CStr(zfs.result) = Joined(zfs.path, zfs.other)

\* left lacks the separator and right brings one: exactly one stands between
C21_Witness ==
    /\ zfs.fn = "join" /\ LargeBuffer
    /\ zfs.path = <<"a">>
    /\ zfs.other = <<"\\", "a">>
    /\ CStr(zfs.result) = <<"a", ZFS__DIR_SEP, "a">>

\* the part of path from its last period on, when that period stands after
\* the last separator; otherwise the empty string
ExtensionOf(path) ==
    LET seps == {i \in 1 .. Len(path) : zfs__is_dir_sep(path[i])}
        start == IF seps = {} THEN 0 ELSE Last(seps)
        dots == {i \in start + 1 .. Len(path) : path[i] = "."}
    IN IF dots = {} THEN <<>> ELSE SubSeq(path, Last(dots), Len(path))

\* C22: zfs_path_extension gives the suffix of the path that starts at the
\* last period after the last '/' or '\', the period included, and the empty
\* string when the last component has no period; a period in a directory
\* component is never taken.
C22_Extension ==
    (zfs.fn = "extension" /\ LargeBuffer) =>
        CStr(zfs.result) = ExtensionOf(zfs.path)

\* the only period stands in the directory part
C22_Witness ==
    /\ zfs.fn = "extension" /\ LargeBuffer
    /\ zfs.path = <<".", "/", "a">>
    /\ CStr(zfs.result) = <<>>

\* C23: zfs_path_join with result == left and zfs_path_set_extension with
\* result == path leave the same string in the buffer as the same call made
\* with a separate result buffer of the same size.
C23_InplaceEquivalent ==
    /\ zfs.fn = "join_inplace" =>
          CStr(zfs.result) =
              CStr(zfs_path_join(FreshBuffer, zfs.result_size, zfs.path,
                                 zfs.other))
    /\ zfs.fn = "set_extension_inplace" =>
          CStr(zfs.result) =
              CStr(zfs_path_set_extension(FreshBuffer, zfs.result_size,
                                          zfs.path, zfs.other))

\* an in-place join that gains a separator and loses the end of right to
\* the size of the buffer
C23_Witness ==
    /\ zfs.fn = "join_inplace"
    /\ zfs.result_size = 4
    /\ zfs.path = <<"a">>
    /\ Len(zfs.other) = 2
    /\ CStr(zfs.result) = <<"a", ZFS__DIR_SEP, "a">>

\* path with every '/' and '\' replaced by the native separator
Normalized(path) ==
    [i \in 1 .. Len(path) |->
        IF zfs__is_dir_sep(path[i]) THEN ZFS__DIR_SEP ELSE path[i]]

\* what both normalizing functions owe for the string s whose result is in
\* the buffer: the separators replaced and nothing else, the same from the
\* other function, and nothing more to do on a second pass
NormalizesTo(s) ==
    /\ CStr(zfs.result) = Normalized(s)
    /\ Len(CStr(zfs.result)) = Len(s)
    /\ CStr(zfs_path_normalize(FreshBuffer, zfs.result_size, s))
         = CStr(zfs_path_normalize_inplace(strcpy(FreshBuffer, s)))
    /\ zfs_path_normalize_inplace(zfs.result) = zfs.result
    /\ CStr(zfs_path_normalize(FreshBuffer, zfs.result_size, CStr(zfs.result)))
         = CStr(zfs.result)

\* C26 as stated: zfs_path_normalize and zfs_path_normalize_inplace replace
\* every '/' and '\' by the native separator, leave the other characters and
\* the length of the string as they are, agree with each other and are
\* idempotent, whatever the size of the result buffer.
C26_NormalizeKeepsLength ==
    zfs.fn \in {"normalize", "normalize_inplace"} => NormalizesTo(zfs.path)

\* C26: the same for zfs_path_normalize_inplace, and for zfs_path_normalize
\* when result_size exceeds the length of the path; with a smaller
\* result_size zfs_path_normalize gives this for the first result_size - 1
\* characters of the path.
C26_Normalize ==
    /\ zfs.fn = "normalize_inplace" => NormalizesTo(zfs.path)
    /\ zfs.fn = "normalize" =>
          IF Len(zfs.path) < zfs.result_size
          THEN NormalizesTo(zfs.path)
          ELSE NormalizesTo(Take(zfs.path, zfs.result_size - 1))

\* a path with both kinds of separator normalized into a buffer that holds it
C26_Witness ==
    /\ zfs.fn = "normalize"
    /\ zfs.path = <<"/", "a", "\\">>
    /\ zfs.result_size = 4
    /\ CStr(zfs.result) = <<ZFS__DIR_SEP, "a", ZFS__DIR_SEP>>

\* the four parts of a path, each taken into a buffer that holds it in full
DirectoryOf(path) == CStr(zfs_path_directory(FreshBuffer, BufLen, path))

BasenameOf(path) == CStr(zfs_path_basename(FreshBuffer, BufLen, path))

StemOf(path) ==
    CStr(zfs_path_basename_without_extension(FreshBuffer, BufLen, path))

SuffixOf(path) == CStr(zfs_path_extension(FreshBuffer, BufLen, path))

\* C30: with buffers that are large enough, the directory of a path followed
\* by its basename is the path, and its basename without extension followed
\* by its extension is its basename.
C30_Decomposition ==
    (zfs.fn \in {"directory", "basename", "basename_without_extension",
                 "extension"} /\ LargeBuffer) =>
        /\ CStr(zfs.result) =
              CASE zfs.fn = "directory" -> DirectoryOf(zfs.path)
                [] zfs.fn = "basename" -> BasenameOf(zfs.path)
                [] zfs.fn = "basename_without_extension" -> StemOf(zfs.path)
                [] zfs.fn = "extension" -> SuffixOf(zfs.path)
        /\ DirectoryOf(zfs.path) \o BasenameOf(zfs.path) = zfs.path
        /\ StemOf(zfs.path) \o SuffixOf(zfs.path) = BasenameOf(zfs.path)

\* the directory taken of a path that has a directory and an extension
C30_Witness ==
    /\ zfs.fn = "directory" /\ LargeBuffer
    /\ zfs.path = <<"/", ".", "a">>
    /\ CStr(zfs.result) = <<"/">>
    /\ BasenameOf(zfs.path) = <<".", "a">>
    /\ SuffixOf(zfs.path) = <<".", "a">>

\* ------------------------------------------------------------------------
\* Properties of the file functions
\* ------------------------------------------------------------------------
\* C25: zfs_file_copy returns true only when the destination holds exactly
\* the bytes of the source, and returns false when the source or the
\* destination cannot be opened, when a write transfers fewer bytes than
\* were read, and when reading the source fails.
C25_CopyReports ==
    copy.op = "copy" =>
        /\ copy.ret = ZFS_TRUE =>
              /\ copy.destination.exists
              /\ copy.destination.data = copy.source.data
        /\ (\/ copy.source_open_failed
            \/ copy.destination_open_failed
            \/ copy.short_write
            \/ copy.read_failed) => copy.ret = ZFS_FALSE

\* ------------------------------------------------------------------------
\* Properties of the directory traversal
\* ------------------------------------------------------------------------
\* C24: a zfs_directory_begin that returns false leaves no directory stream
\* open: it was never opened, or it was opened once and closed once.  After
\* begin returned true, any number of zfs_directory_next and then
\* zfs_directory_end, the stream has been closed exactly once and the
\* context's handle is null.
C24_TraversalProtocol ==
    /\ dir.closes <= dir.opens
    /\ (dir.op = "begin" /\ dir.ret = ZFS_FALSE) =>
          /\ dir.state # "open"
          /\ \/ dir.opens = 0 /\ dir.closes = 0
             \/ dir.opens = 1 /\ dir.closes = 1
    /\ dir.op = "end" =>
          /\ dir.opens = 1
          /\ dir.closes = 1
          /\ dir.state = "closed"
          /\ dir.handle = "NULL"

\* a traversal that stepped at least once and was ended
C24_Witness == dir.op = "end" /\ Len(dir.visited) >= 2

\* the entries of a listing other than "." and "..", in its order
Ordinary(entries) ==
    SelectSeq(entries, LAMBDA name : name \notin SkippedNames)

====
